---- MODULE Spec2Model ----
(***************************************************************************)
(* rnsec scan orchestration core: the ScanCache (core/cache.ts) and the    *)
(* RuleEngine (core/ruleEngine.ts) with its p-limit bounded scheduler.     *)
(*                                                                         *)
(* JavaScript runs the code between two awaits atomically, so every action *)
(* below is one such segment (or one synchronous public method).           *)
(***************************************************************************)
EXTENDS Integers, Sequences, FiniteSets, TLC

VARIABLES
  scanCache,      \* RuleEngine.cache : ScanCache | null (or the ScanCache under test)
  disk,           \* content of <projectDir>/.rnsec-cache.json
  now,            \* Date.now()
  fs,             \* the project files: path -> content, or NoFile
  ruleGroups,     \* RuleEngine.ruleGroups
  ignoredRules,   \* RuleEngine.ignoredRules
  skippedFiles,   \* RuleEngine.skippedFiles
  cachedFiles,    \* RuleEngine.cachedFiles
  concurrency,    \* RuleEngine.concurrency
  phase,          \* per run: "idle" | "walking" | "running" | "done"
  filePaths,      \* per run: the input list
  limitN,         \* per run: the concurrency the limiter was created with
  task,           \* per run, per position: the per-file task
  completed,      \* per run: the local counter `completed`
  progress,       \* per run: the `current` values handed to the progress callback
  result,         \* per run: the ScanResult the run resolved with
  lastCall,       \* observation: the last public call and its outcome
  mutated,        \* observation: a mutation took effect since the last successful save
  saver,          \* observation: the instance that last wrote the cache file
  own,            \* observation: the paths whose entry this instance wrote itself
  prevScan,       \* observation: per path, what the previous cached scan read and returned
  uncached,       \* observation: per run, what the same scan returns with no cache
  scans,          \* observation: how many scans were started
  writes,         \* observation: writes of the cache file by the engine since the run began
  excludedPaths,  \* RuleEngine.excludedPaths
  input,          \* the arguments of the last call of a pure function
  output          \* what that call returned, as [ret |-> value]

cacheVars  == <<scanCache, disk, now>>
engineVars == <<ruleGroups, ignoredRules, skippedFiles, cachedFiles, concurrency>>
runVars    == <<phase, filePaths, limitN, task, completed, progress, result>>
obsVars    == <<lastCall, mutated, saver, own, prevScan, uncached, scans, writes>>
vars       == <<scanCache, disk, now, fs, ruleGroups, ignoredRules, skippedFiles,
                cachedFiles, concurrency, phase, filePaths, limitN, task, completed,
                progress, result, lastCall, mutated, saver, own, prevScan, uncached,
                scans, writes, excludedPaths, input, output>>
pureVars   == <<input, output>>

---------------------------------------------------------------------------
(* Bounds of the model *)

MaxFiles == 2
MaxGroups == 2
MaxTime == 2
MaxLen == 5

---------------------------------------------------------------------------
(* The small universe the inputs are drawn from *)

Paths    == {"/p/a.js", "/p/b.json"}
Contents == {"c1", "c2"}
Versions == {"1.0.0", "2.0.0"}
RuleIds  == {"R1", "R2"}
NoFile   == "ENOENT"
Null     == [null |-> TRUE]

\* createHash('sha256').update(content).digest('hex'): a digest, distinct per content
getContentHash(content) ==
  CASE content = "c1" -> "9f2a"
    [] content = "c2" -> "41bc"
    [] OTHER -> "e3b0"

Hashes == {getContentHash(c) : c \in Contents}

Finding(r, p, s) == [ruleId |-> r, filePath |-> p, snippet |-> s]

---------------------------------------------------------------------------
(* ScanCache                                                               *)
(* CacheData.files is a map; a loaded file can also make it null or an     *)
(* array, which `typeof data.files === 'object'` both accepts.             *)

CacheEntry(h, f, t, v) == [hash |-> h, findings |-> f, timestamp |-> t, version |-> v]

createEmptyCache == [kind |-> "object", files |-> <<>>]

ScanCache(v) ==
  [cache |-> createEmptyCache, version |-> v, isDirty |-> FALSE, enabled |-> TRUE]

\* this.cache.files[filePath] / Object.keys(this.cache.files) on null: TypeError
FilesIsNull(sc) == sc.cache.kind = "null"

HasEntry(sc, p) == p \in DOMAIN sc.cache.files

\* The cache file: absent, or a text that JSON.parse rejects or turns into a value
DiskMissing == [t |-> "ENOENT", j |-> "", kind |-> "", files |-> <<>>]
TextInvalid == [t |-> "text", j |-> "invalid", kind |-> "", files |-> <<>>]
TextNull    == [t |-> "text", j |-> "null", kind |-> "", files |-> <<>>]
TextNoFiles == [t |-> "text", j |-> "nofiles", kind |-> "", files |-> <<>>]
TextFilesNull  == [t |-> "text", j |-> "data", kind |-> "null", files |-> <<>>]
TextFilesArray == [t |-> "text", j |-> "data", kind |-> "array", files |-> <<>>]

\* JSON.stringify(this.cache, null, 2): own properties of a plain object are kept,
\* string-keyed properties of an array are not
JsonStringify(cache) ==
  [t |-> "text", j |-> "data", kind |-> cache.kind,
   files |-> IF cache.kind = "object" THEN cache.files ELSE <<>>]

\* readFile + JSON.parse throw: file absent, empty or not JSON
ReadOrParseFails(d) == d.t = "ENOENT" \/ d.j = "invalid"

\* data && typeof data.files === 'object'
StructureAccepted(d) == d.j = "data"

load(sc, d) ==
  IF ~sc.enabled THEN sc
  ELSE IF ReadOrParseFails(d) THEN [sc EXCEPT !.cache = createEmptyCache]
  ELSE IF StructureAccepted(d) THEN [sc EXCEPT !.cache = [kind |-> d.kind, files |-> d.files]]
  ELSE sc

\* save(): the guard of line 89
saveWrites_Always(sc) == TRUE

saveWrites(sc) == sc.enabled /\ sc.isDirty

\* save(): after writeFile resolved
saved(sc) == [sc EXCEPT !.isDirty = FALSE]

isValidThrows(sc) == sc.enabled /\ FilesIsNull(sc)

isValid_NoVersionCheck(sc, p, h) ==
  /\ sc.enabled
  /\ HasEntry(sc, p)
  /\ sc.cache.files[p].hash = h

isValid_NoHashCheck(sc, p, h) ==
  /\ sc.enabled
  /\ HasEntry(sc, p)
  /\ sc.cache.files[p].version = sc.version

isValid(sc, p, h) ==
  /\ sc.enabled
  /\ HasEntry(sc, p)
  /\ sc.cache.files[p].hash = h
  /\ sc.cache.files[p].version = sc.version

getFindingsThrows(sc) == sc.enabled /\ FilesIsNull(sc)

\* null, or the entry's findings
getFindingsIsNull(sc, p) == ~sc.enabled \/ ~HasEntry(sc, p)

getFindings(sc, p) ==
  IF getFindingsIsNull(sc, p) THEN <<>> ELSE sc.cache.files[p].findings

setThrows(sc) == sc.enabled /\ FilesIsNull(sc)

PutEntry(files, p, e) ==
  [q \in (DOMAIN files) \cup {p} |-> IF q = p THEN e ELSE files[q]]

DropEntries(files, gone) ==
  [q \in (DOMAIN files) \ gone |-> files[q]]

set_StaysClean(sc, p, h, f, t) ==
  IF ~sc.enabled THEN sc
  ELSE [sc EXCEPT !.cache.files = PutEntry(@, p, CacheEntry(h, f, t, sc.version))]

set(sc, p, h, f, t) ==
  IF ~sc.enabled THEN sc
  ELSE [sc EXCEPT !.cache.files = PutEntry(@, p, CacheEntry(h, f, t, sc.version)),
                  !.isDirty = TRUE]

removeThrows(sc) == FilesIsNull(sc)

remove(sc, p) ==
  IF HasEntry(sc, p)
  THEN [sc EXCEPT !.cache.files = DropEntries(@, {p}), !.isDirty = TRUE]
  ELSE sc

clear_OnlyMarksDirty(sc) == [sc EXCEPT !.isDirty = TRUE]

clear(sc) == [sc EXCEPT !.cache = createEmptyCache, !.isDirty = TRUE]

setEnabled(sc, b) == [sc EXCEPT !.enabled = b]

getStats(sc) == Cardinality(DOMAIN sc.cache.files)

DEFAULT_MAX_AGE == 604800000

pruneThrows(sc) == FilesIsNull(sc)

Stale(sc, existingFiles, maxAgeMs, t) ==
  {p \in DOMAIN sc.cache.files :
     p \notin existingFiles \/ sc.cache.files[p].timestamp < t - maxAgeMs}

prune(sc, existingFiles, maxAgeMs, t) ==
  IF Stale(sc, existingFiles, maxAgeMs, t) = {} THEN sc
  ELSE [sc EXCEPT !.cache.files = DropEntries(@, Stale(sc, existingFiles, maxAgeMs, t)),
                  !.isDirty = TRUE]

pruned(sc, existingFiles, maxAgeMs, t) ==
  Cardinality(Stale(sc, existingFiles, maxAgeMs, t))

---------------------------------------------------------------------------
(* Observations of the calls made on the cache *)

NoCall ==
  [op |-> "none", path |-> "", hash |-> "", threw |-> FALSE, changed |-> FALSE,
   due |-> FALSE, wrote |-> FALSE, ok |-> FALSE, fresh |-> FALSE,
   existing |-> {}, maxAge |-> 0, ret |-> 0]

Call(op) == [NoCall EXCEPT !.op = op]

\* whether a call changed the entry map or the dirty flag
Changed(before, after) ==
  before.cache # after.cache \/ before.isDirty # after.isDirty

RunIds == {1, 2}

DEFAULT_CONCURRENCY == 10

IdleRuns ==
  /\ phase = [r \in RunIds |-> "idle"]
  /\ filePaths = [r \in RunIds |-> <<>>]
  /\ limitN = [r \in RunIds |-> 0]
  /\ task = [r \in RunIds |-> <<>>]
  /\ completed = [r \in RunIds |-> 0]
  /\ progress = [r \in RunIds |-> <<>>]
  /\ result = [r \in RunIds |-> Null]

FreshEngine ==
  /\ ruleGroups = <<>>
  /\ ignoredRules = {}
  /\ skippedFiles = 0
  /\ cachedFiles = 0
  /\ concurrency = DEFAULT_CONCURRENCY
  /\ excludedPaths = {}

NoObservations ==
  /\ lastCall = NoCall
  /\ mutated = FALSE
  /\ saver = Null
  /\ own = {}
  /\ prevScan = [p \in Paths |-> Null]
  /\ uncached = [r \in RunIds |-> <<>>]
  /\ scans = 0
  /\ writes = 0
  /\ input = Null
  /\ output = Null

---------------------------------------------------------------------------
(* The ScanCache driven directly through its public methods *)

\* the findings a caller stores with a fingerprint
SampleFindings(p, h) ==
  IF h = getContentHash("c1") THEN <<Finding("R1", p, "s1")>> ELSE <<>>

\* cache files some other program or an interrupted write can leave behind
ForeignDisks ==
  {DiskMissing, TextInvalid, TextNull, TextNoFiles, TextFilesNull, TextFilesArray}

InitCache ==
  /\ scanCache \in {ScanCache(v) : v \in Versions}
  /\ disk = DiskMissing
  /\ now = 0
  /\ fs = [p \in Paths |-> "c1"]
  /\ FreshEngine
  /\ IdleRuns
  /\ NoObservations

CacheFrame == UNCHANGED <<fs, excludedPaths, pureVars, engineVars, runVars, prevScan, uncached, scans, writes>>

\* new ScanCache(projectDir, version)
Construct(v) ==
  /\ scanCache' = ScanCache(v)
  /\ lastCall' = Call("construct")
  /\ mutated' = FALSE
  /\ own' = {}
  /\ UNCHANGED <<disk, now, saver>>
  /\ CacheFrame

Load ==
  /\ scanCache' = load(scanCache, disk)
  /\ lastCall' = [Call("load") EXCEPT !.fresh = (lastCall.op = "construct"),
                                      !.changed = Changed(scanCache, scanCache')]
  /\ own' = IF scanCache'.cache = scanCache.cache THEN own ELSE {}
  /\ UNCHANGED <<disk, now, mutated, saver>>
  /\ CacheFrame

\* save() returning at line 89
SaveSkip ==
  /\ ~saveWrites(scanCache)
  /\ lastCall' = [Call("save") EXCEPT !.due = (scanCache.enabled /\ mutated)]
  /\ UNCHANGED <<scanCache, disk, now, mutated, saver, own>>
  /\ CacheFrame

\* save() with mkdir and writeFile resolving
SaveOk ==
  /\ saveWrites(scanCache)
  /\ disk' = JsonStringify(scanCache.cache)
  /\ scanCache' = saved(scanCache)
  /\ lastCall' = [Call("save") EXCEPT !.due = (scanCache.enabled /\ mutated),
                                      !.wrote = TRUE, !.ok = TRUE]
  /\ mutated' = FALSE
  /\ saver' = [cache |-> scanCache.cache, version |-> scanCache.version, own |-> own]
  /\ UNCHANGED <<now, own>>
  /\ CacheFrame

\* save() with mkdir or writeFile rejecting: the file is as before, or cut short
SaveFail ==
  /\ saveWrites(scanCache)
  /\ \E d \in {disk, TextInvalid} :
       /\ disk' = d
       /\ saver' = IF d = disk THEN saver ELSE Null
  /\ lastCall' = [Call("save") EXCEPT !.due = (scanCache.enabled /\ mutated),
                                      !.wrote = TRUE]
  /\ UNCHANGED <<scanCache, now, mutated, own>>
  /\ CacheFrame

Set(p, h) ==
  /\ IF setThrows(scanCache)
     THEN /\ lastCall' = [Call("set") EXCEPT !.path = p, !.hash = h, !.threw = TRUE]
          /\ UNCHANGED <<scanCache, mutated, own>>
     ELSE /\ scanCache' = set(scanCache, p, h, SampleFindings(p, h), now)
          /\ own' = IF scanCache.enabled THEN own \cup {p} ELSE own
          /\ lastCall' = [Call("set") EXCEPT !.path = p, !.hash = h,
                                            !.changed = Changed(scanCache, scanCache')]
          /\ mutated' = (mutated \/ scanCache.enabled)
  /\ UNCHANGED <<disk, now, saver>>
  /\ CacheFrame

Remove(p) ==
  /\ IF removeThrows(scanCache)
     THEN /\ lastCall' = [Call("remove") EXCEPT !.threw = TRUE]
          /\ UNCHANGED <<scanCache, mutated, own>>
     ELSE /\ scanCache' = remove(scanCache, p)
          /\ own' = own \ {p}
          /\ lastCall' = [Call("remove") EXCEPT !.changed = Changed(scanCache, scanCache')]
          /\ mutated' = (mutated \/ HasEntry(scanCache, p))
  /\ UNCHANGED <<disk, now, saver>>
  /\ CacheFrame

Clear ==
  /\ scanCache' = clear(scanCache)
  /\ lastCall' = [Call("clear") EXCEPT !.changed = Changed(scanCache, scanCache')]
  /\ mutated' = TRUE
  /\ own' = {}
  /\ UNCHANGED <<disk, now, saver>>
  /\ CacheFrame

\* prune(existingFiles, maxAgeMs)
PruneWithAge(existingFiles, maxAgeMs) ==
  /\ IF pruneThrows(scanCache)
     THEN /\ lastCall' = [Call("prune") EXCEPT !.threw = TRUE,
                                              !.existing = existingFiles,
                                              !.maxAge = maxAgeMs]
          /\ UNCHANGED <<scanCache, mutated, own>>
     ELSE /\ scanCache' = prune(scanCache, existingFiles, maxAgeMs, now)
          /\ own' = own \ Stale(scanCache, existingFiles, maxAgeMs, now)
          /\ lastCall' = [Call("prune") EXCEPT
                            !.changed = Changed(scanCache, scanCache'),
                            !.existing = existingFiles,
                            !.maxAge = maxAgeMs,
                            !.ret = pruned(scanCache, existingFiles, maxAgeMs, now)]
          /\ mutated' = (mutated \/ pruned(scanCache, existingFiles, maxAgeMs, now) > 0)
  /\ UNCHANGED <<disk, now, saver>>
  /\ CacheFrame

\* prune(existingFiles): the age limit defaults to seven days
Prune(existingFiles) == PruneWithAge(existingFiles, DEFAULT_MAX_AGE)

SetEnabled(b) ==
  /\ scanCache' = setEnabled(scanCache, b)
  /\ lastCall' = Call("setEnabled")
  /\ UNCHANGED <<disk, now, mutated, saver, own>>
  /\ CacheFrame

\* another program rewrites, truncates or deletes the cache file
Tamper(d) ==
  /\ d # disk
  /\ disk' = d
  /\ saver' = Null
  /\ lastCall' = NoCall
  /\ UNCHANGED <<scanCache, now, mutated, own>>
  /\ CacheFrame

NextCache ==
  \/ \E v \in Versions : Construct(v)
  \/ Load
  \/ SaveSkip
  \/ SaveOk
  \/ SaveFail
  \/ \E p \in Paths, h \in Hashes : Set(p, h)
  \/ \E p \in Paths : Remove(p)
  \/ Clear
  \/ \E e \in SUBSET Paths : Prune(e)
  \/ \E b \in BOOLEAN : SetEnabled(b)
  \/ \E d \in ForeignDisks : Tamper(d)

SpecCache == InitCache /\ [][NextCache]_vars

---------------------------------------------------------------------------
(* The ScanCache while time passes: entries of several ages, pruned *)

\* the age limits a caller passes, in the clock's unit
MaxAges == {0, 1, DEFAULT_MAX_AGE}

\* Date.now() moves on between two calls
Tick ==
  /\ now < MaxTime
  /\ now' = now + 1
  /\ lastCall' = NoCall
  /\ UNCHANGED <<scanCache, disk, mutated, saver, own>>
  /\ CacheFrame

InitPrune ==
  /\ scanCache = ScanCache("1.0.0")
  /\ disk \in {DiskMissing, TextFilesNull, TextFilesArray}
  /\ now = 0
  /\ fs = [p \in Paths |-> "c1"]
  /\ FreshEngine
  /\ IdleRuns
  /\ NoObservations

NextPrune ==
  \/ Load
  \/ \E p \in Paths, h \in Hashes : Set(p, h)
  \/ Tick
  \/ \E e \in SUBSET Paths, m \in MaxAges : PruneWithAge(e, m)
  \/ \E b \in BOOLEAN : SetEnabled(b)

SpecPrune == InitPrune /\ [][NextPrune]_vars

---------------------------------------------------------------------------
(* Rules.  The engine sees a rule only through id, fileTypes and apply; the  *)
(* rules below are the test doubles of the engine's tests: apply is a       *)
(* deterministic function of the context, and may throw.                    *)

Groups == {<<"R1">>, <<"R2", "R1">>}

\* a group whose rule resolves with an array that holds null
FaultyGroups == {<<"R3">>}

fileTypes(r) == IF r = "R1" THEN {".js", ".ts"} ELSE {".js", ".json"}

\* filePath.endsWith(type)
endsWith(p, type) ==
  \/ p = "/p/a.js" /\ type = ".js"
  \/ p = "/p/b.json" /\ type = ".json"

applyThrows(r, p, c) == r = "R2" /\ c = "c2"

apply(r, p, c) ==
  CASE r = "R1" /\ c = "c1" -> <<Finding("R1", p, "const key = 'abc'")>>
    [] r = "R1" /\ c = "c2" -> <<Finding("R1", p, "eval(input)")>>
    [] r = "R3" -> <<Null>>
    [] r = "R2" /\ c = "c1" -> <<Finding("R2", p, "fetch(url)"),
                                 Finding("R2", p, "__DEV__ && log(url)")>>
    [] OTHER -> <<>>

\* a text as the words and operators it is made of
Tokens(text) ==
  CASE text = "__DEV__ && log(url)" -> <<"__DEV__", "&&", "log", "url">>
    [] text = "if (__DEV__) { console.log(\"debug\"); }" ->
         <<"if", "__DEV__", "console", "log", "debug">>
    [] text = "__DEV__ && console.log(\"debug\")" -> <<"__DEV__", "&&", "console", "log", "debug">>
    [] text = "if (process.env.NODE_ENV === \"development\") {}" ->
         <<"if", "process", "env", "NODE_ENV", "===", "development">>
    [] text = "process.env.NODE_ENV !== \"production\"" ->
         <<"process", "env", "NODE_ENV", "!==", "production">>
    [] text = "process.env.NODE_ENV === \"production\"" ->
         <<"process", "env", "NODE_ENV", "===", "production">>
    [] text = "if (DEBUG) { logDetails(); }" -> <<"if", "DEBUG", "logDetails">>
    [] text = "DEBUG && console.log(data)" -> <<"DEBUG", "&&", "console", "log", "data">>
    [] text = "const x = 1;" -> <<"const", "x", "=", "1">>
    [] text = "export default App;" -> <<"export", "default", "App">>
    [] text = "fetch(url)" -> <<"fetch", "url">>
    [] OTHER -> <<>>

\* the directories below the root and the dot-separated parts of the file name
PathParts(p) ==
  CASE p = "/p/App.tsx" -> [dirs |-> <<>>, name |-> <<"App", "tsx">>]
    [] p = "/p/README.md" -> [dirs |-> <<>>, name |-> <<"README", "md">>]
    [] p = "/p/__tests__/App.test.tsx" ->
         [dirs |-> <<"__tests__">>, name |-> <<"App", "test", "tsx">>]
    [] p = "/p/__tests__/helper.js" -> [dirs |-> <<"__tests__">>, name |-> <<"helper", "js">>]
    [] p = "/p/android/AndroidManifest.xml" ->
         [dirs |-> <<"android">>, name |-> <<"AndroidManifest", "xml">>]
    [] p = "/p/app.json" -> [dirs |-> <<>>, name |-> <<"app", "json">>]
    [] p = "/p/ios/Info.plist" -> [dirs |-> <<"ios">>, name |-> <<"Info", "plist">>]
    [] p = "/p/node_modules/pkg/index.js" ->
         [dirs |-> <<"node_modules", "pkg">>, name |-> <<"index", "js">>]
    [] p = "/p/src/components/Button.tsx" ->
         [dirs |-> <<"src", "components">>, name |-> <<"Button", "tsx">>]
    [] p = "/p/src/components/Input.jsx" ->
         [dirs |-> <<"src", "components">>, name |-> <<"Input", "jsx">>]
    [] p = "/p/src/utils.js" -> [dirs |-> <<"src">>, name |-> <<"utils", "js">>]
    [] p = "/p/src/utils.spec.ts" -> [dirs |-> <<"src">>, name |-> <<"utils", "spec", "ts">>]
    [] p = "/p/src/utils.test.ts" -> [dirs |-> <<"src">>, name |-> <<"utils", "test", "ts">>]
    [] p = "/src/debug/utils.js" -> [dirs |-> <<"src", "debug">>, name |-> <<"utils", "js">>]
    [] p = "/app/__tests__/app.test.ts" ->
         [dirs |-> <<"app", "__tests__">>, name |-> <<"app", "test", "ts">>]
    [] p = "/storybook/Button.stories.tsx" ->
         [dirs |-> <<"storybook">>, name |-> <<"Button", "stories", "tsx">>]
    [] p = "/src/utils.test.ts" -> [dirs |-> <<"src">>, name |-> <<"utils", "test", "ts">>]
    [] p = "/src/utils.spec.js" -> [dirs |-> <<"src">>, name |-> <<"utils", "spec", "js">>]
    [] p = "/__mocks__/api.js" -> [dirs |-> <<"__mocks__">>, name |-> <<"api", "js">>]
    [] p = "/node_modules/package/index.js" ->
         [dirs |-> <<"node_modules", "package">>, name |-> <<"index", "js">>]
    [] p = "/src/App.tsx" -> [dirs |-> <<"src">>, name |-> <<"App", "tsx">>]
    [] p = "/components/Button.tsx" -> [dirs |-> <<"components">>, name |-> <<"Button", "tsx">>]
    [] p = "/p/a.js" -> [dirs |-> <<>>, name |-> <<"a", "js">>]
    [] p = "/p/b.json" -> [dirs |-> <<>>, name |-> <<"b", "json">>]
    [] OTHER -> [dirs |-> <<>>, name |-> <<"">>]

extension(p) == PathParts(p).name[Len(PathParts(p).name)]

InDir(p, d) == \E k \in DOMAIN PathParts(p).dirs : PathParts(p).dirs[k] = d

\* a development-flag guard in a text: __DEV__, a NODE_ENV development check, DEBUG
HasDevGuard(text) ==
  LET t == Tokens(text)
  IN \E k \in DOMAIN t :
       \/ t[k] \in {"__DEV__", "DEBUG"}
       \/ /\ t[k] = "NODE_ENV"
          /\ k + 2 <= Len(t)
          /\ <<t[k + 1], t[k + 2]>> \in {<<"===", "development">>, <<"!==", "production">>}

\* a development-artifact path: test, mock, debug and dependency directories,
\* test, spec and story files
IsDevPath(p) ==
  \/ \E d \in {"__tests__", "__mocks__", "debug", "node_modules"} : InDir(p, d)
  \/ \E k \in 2..(Len(PathParts(p).name) - 1) :
       PathParts(p).name[k] \in {"test", "spec", "stories"}

isInDebugContext_IgnoresSnippet(code, snippet, filePath) ==
  HasDevGuard(code) \/ IsDevPath(filePath)

isInDebugContext(code, snippet, filePath) ==
  HasDevGuard(code) \/ HasDevGuard(snippet) \/ IsDevPath(filePath)

RECURSIVE flatMap(_)
\* ruleGroups.flatMap(group => group.rules)
flatMap(groups) ==
  IF groups = <<>> THEN <<>> ELSE Head(groups) \o flatMap(Tail(groups))

getAllRules_KeepsIgnored(groups, ignored) == flatMap(groups)

getAllRules(groups, ignored) ==
  SelectSeq(flatMap(groups), LAMBDA r : r \notin ignored)

getApplicableRules(groups, ignored, p) ==
  SelectSeq(getAllRules(groups, ignored),
            LAMBDA r : \E type \in fileTypes(r) : endsWith(p, type))

\* finding.snippet on a finding that is null raises a TypeError
enrichThrows(findings) == \E k \in DOMAIN findings : findings[k] = Null

enrichFindingsWithDebugContext_KeepsAll(findings, fileContent) == findings

enrichFindingsWithDebugContext(findings, fileContent) ==
  SelectSeq(findings, LAMBDA f : ~isInDebugContext(fileContent, f.snippet, f.filePath))

\* one turn of the loop of scanFileContent: a throwing rule adds nothing
applyRule_ThrowDropsCollected(findings, r, p, c) ==
  IF applyThrows(r, p, c) THEN <<>> ELSE findings \o apply(r, p, c)

applyRule(findings, r, p, c) ==
  IF applyThrows(r, p, c) THEN findings ELSE findings \o apply(r, p, c)

RECURSIVE applyRules(_, _, _, _)
applyRules(findings, rules, p, c) ==
  IF rules = <<>> THEN findings
  ELSE applyRules(applyRule(findings, Head(rules), p, c), Tail(rules), p, c)

\* scanFileContent as a whole
scanFileContent(groups, ignored, p, c) ==
  enrichFindingsWithDebugContext(applyRules(<<>>, getApplicableRules(groups, ignored, p), p, c), c)

\* scanFileContent rejecting: the filter runs outside the try of the loop
scanFileContentThrows(groups, ignored, p, c) ==
  enrichThrows(applyRules(<<>>, getApplicableRules(groups, ignored, p), p, c))

---------------------------------------------------------------------------
(* RuleEngine: configuration.  These calls are made between scans.          *)

NoRunActive == \A r \in RunIds : phase[r] \notin {"walking", "running"}

\* the caller holds no run any more when it configures the engine
ForgetRuns ==
  /\ phase' = [r \in RunIds |-> "idle"]
  /\ filePaths' = [r \in RunIds |-> <<>>]
  /\ limitN' = [r \in RunIds |-> 0]
  /\ task' = [r \in RunIds |-> <<>>]
  /\ completed' = [r \in RunIds |-> 0]
  /\ progress' = [r \in RunIds |-> <<>>]
  /\ result' = [r \in RunIds |-> Null]
  /\ uncached' = [r \in RunIds |-> <<>>]

EngineFrame == UNCHANGED <<now, lastCall, scans, writes>> /\ ForgetRuns

RegisterRuleGroup(g) ==
  /\ NoRunActive
  /\ Len(ruleGroups) < MaxGroups
  /\ ruleGroups' = Append(ruleGroups, g)
  /\ UNCHANGED <<scanCache, disk, fs, excludedPaths, pureVars, ignoredRules, skippedFiles, cachedFiles, concurrency,
                 mutated, saver, own, prevScan>>
  /\ EngineFrame

SetIgnoredRules(ids) ==
  /\ NoRunActive
  /\ ignoredRules' = ids
  /\ UNCHANGED <<scanCache, disk, fs, excludedPaths, pureVars, ruleGroups, skippedFiles, cachedFiles, concurrency,
                 mutated, saver, own, prevScan>>
  /\ EngineFrame

SetConcurrency_Unclamped(n) ==
  /\ concurrency' = n
  /\ UNCHANGED <<scanCache, disk, fs, excludedPaths, pureVars, ruleGroups, ignoredRules, skippedFiles, cachedFiles,
                 mutated, saver, own, prevScan>>
  /\ UNCHANGED <<now, lastCall, scans>>
  /\ UNCHANGED writes
  /\ IF NoRunActive THEN ForgetRuns ELSE UNCHANGED <<runVars, uncached>>

\* a run in progress keeps the limiter it built when it started
SetConcurrency(n) ==
  /\ concurrency' = IF n > 1 THEN n ELSE 1
  /\ UNCHANGED <<scanCache, disk, fs, excludedPaths, pureVars, ruleGroups, ignoredRules, skippedFiles, cachedFiles,
                 mutated, saver, own, prevScan>>
  /\ UNCHANGED <<now, lastCall, scans>>
  /\ UNCHANGED writes
  /\ IF NoRunActive THEN ForgetRuns ELSE UNCHANGED <<runVars, uncached>>

EnableCache(v) ==
  /\ NoRunActive
  /\ scanCache' = load(ScanCache(v), disk)
  /\ mutated' = FALSE
  /\ UNCHANGED <<disk, fs, excludedPaths, pureVars, engineVars, saver, own, prevScan>>
  /\ EngineFrame

DisableCache ==
  /\ NoRunActive
  /\ scanCache # Null
  /\ scanCache' = Null
  /\ mutated' = FALSE
  /\ UNCHANGED <<disk, fs, excludedPaths, pureVars, engineVars, saver, own, prevScan>>
  /\ EngineFrame

EngineSave_FailureClearsDirty(sc, before) ==
  \/ /\ ~saveWrites(sc)
     /\ scanCache' = sc
     /\ disk' = disk
     /\ mutated' = mutated
     /\ writes' = before
  \/ /\ saveWrites(sc)
     /\ scanCache' = saved(sc)
     /\ disk' = JsonStringify(sc.cache)
     /\ mutated' = FALSE
     /\ writes' = before + 1
  \/ /\ saveWrites(sc)
     /\ scanCache' = saved(sc)
     /\ disk' \in {disk, TextInvalid}
     /\ mutated' = TRUE
     /\ writes' = before + 1

\* cache.save() as the engine awaits it: nothing to write, written, or the write failed
\* `before` is the number of writes counted so far
EngineSave(sc, before) ==
  \/ /\ ~saveWrites(sc)
     /\ scanCache' = sc
     /\ disk' = disk
     /\ mutated' = mutated
     /\ writes' = before
  \/ /\ saveWrites(sc)
     /\ scanCache' = saved(sc)
     /\ disk' = JsonStringify(sc.cache)
     /\ mutated' = FALSE
     /\ writes' = before + 1
  \/ /\ saveWrites(sc)
     /\ scanCache' = sc
     /\ disk' \in {disk, TextInvalid}
     /\ mutated' = TRUE
     /\ writes' = before + 1

ClearCache ==
  /\ NoRunActive
  /\ scanCache # Null
  /\ EngineSave(clear(scanCache), 0)
  /\ prevScan' = [p \in Paths |-> Null]
  /\ lastCall' = [Call("clearCache") EXCEPT !.wrote = (writes' = 1),
                                            !.ok = (writes' = 1 /\ ~mutated'),
                                            !.ret = scans]
  /\ UNCHANGED <<fs, excludedPaths, pureVars, engineVars, saver, own>>
  /\ UNCHANGED <<now, scans>>
  /\ ForgetRuns

\* new RuleEngine(), as after a restart of the tool
NewEngine ==
  /\ NoRunActive
  /\ ruleGroups' = <<>>
  /\ ignoredRules' = {}
  /\ skippedFiles' = 0
  /\ cachedFiles' = 0
  /\ concurrency' = DEFAULT_CONCURRENCY
  /\ excludedPaths' = {}
  /\ scanCache' = Null
  /\ mutated' = FALSE
  /\ UNCHANGED <<disk, fs, pureVars, saver, own, prevScan>>
  /\ EngineFrame

\* the user edits, creates or deletes a project file
WriteFile(p, c) ==
  /\ NoRunActive
  /\ fs[p] # c
  /\ fs' = [fs EXCEPT ![p] = c]
  /\ UNCHANGED <<scanCache, disk, engineVars, excludedPaths, pureVars, mutated, saver, own,
                 prevScan>>
  /\ EngineFrame

\* another program rewrites, truncates or deletes the cache file
TamperDisk(d) ==
  /\ NoRunActive
  /\ d # disk
  /\ disk' = d
  /\ prevScan' = [p \in Paths |-> Null]
  /\ UNCHANGED <<scanCache, fs, excludedPaths, pureVars, engineVars, mutated, saver, own>>
  /\ EngineFrame

---------------------------------------------------------------------------
(* RuleEngine: one run of runRulesOnFiles.  Each per-file task is the        *)
(* function handed to limit(); it is cut at its awaits: the file read, the  *)
(* parse in prepareContext, and each rule.apply.                            *)

QueuedTask ==
  [pc |-> "queued", content |-> NoFile, rules |-> <<>>, ri |-> 0, findings |-> <<>>,
   hit |-> FALSE, applied |-> 0, doneAt |-> 0, skipped |-> FALSE]

\* the tasks of a run go on after Promise.all has rejected
Pending(r) == phase[r] \in {"running", "rejected"}

InFlight(r) ==
  {i \in DOMAIN task[r] : task[r][i].pc \in {"reading", "parsing", "rules"}}

Queued(r) == {i \in DOMAIN task[r] : task[r][i].pc = "queued"}

\* p-limit: a queued function starts only while fewer than `concurrency` are active
HasFreeSlot_Unbounded(r) == TRUE

HasFreeSlot_OnlyWhenIdle(r) == InFlight(r) = {}

HasFreeSlot(r) == Cardinality(InFlight(r)) < limitN[r]

FileLists == UNION {[1..n -> Paths] : n \in 0..MaxFiles}

RunFrame ==
  UNCHANGED <<now, fs, excludedPaths, pureVars, ruleGroups, ignoredRules, concurrency, lastCall, saver, own>>

MaxScans == 2

StartRun(r, files) ==
  /\ NoRunActive
  /\ scans < MaxScans
  /\ scans' = scans + 1
  /\ phase' = [phase EXCEPT ![r] = "running"]
  /\ filePaths' = [filePaths EXCEPT ![r] = files]
  /\ limitN' = [limitN EXCEPT ![r] = concurrency]
  /\ task' = [task EXCEPT ![r] = [i \in DOMAIN files |-> QueuedTask]]
  /\ completed' = [completed EXCEPT ![r] = 0]
  /\ progress' = [progress EXCEPT ![r] = <<>>]
  /\ result' = [result EXCEPT ![r] = Null]
  /\ uncached' = [uncached EXCEPT ![r] = <<>>]
  /\ skippedFiles' = 0
  /\ cachedFiles' = 0
  /\ writes' = 0
  /\ UNCHANGED <<scanCache, disk, mutated, prevScan>>
  /\ RunFrame

\* the limiter starts the oldest queued task, which calls readFileContent
Admit(r) ==
  /\ Pending(r)
  /\ Queued(r) # {}
  /\ HasFreeSlot(r)
  /\ LET i == CHOOSE j \in Queued(r) : \A k \in Queued(r) : j <= k
     IN task' = [task EXCEPT ![r][i].pc = "reading"]
  /\ UNCHANGED <<scanCache, disk, skippedFiles, cachedFiles, phase, filePaths, limitN,
                 completed, progress, result, mutated, prevScan, uncached, scans,
                 writes>>
  /\ RunFrame

\* the task's function returns: completed++, then the progress callback
Settle(r, i, t) ==
  /\ task' = [task EXCEPT ![r][i] = [t EXCEPT !.pc = "done", !.doneAt = completed[r] + 1]]
  /\ completed' = [completed EXCEPT ![r] = @ + 1]
  /\ progress' = [progress EXCEPT ![r] = Append(@, completed[r] + 1)]

\* the catch of scanFile
Skip(r, i, t) ==
  /\ skippedFiles' = skippedFiles + 1
  /\ Settle(r, i, [t EXCEPT !.findings = <<>>, !.skipped = TRUE])

\* scanFile after scanFileContent resolved: store the findings, return them
Store(r, i, t, findings) ==
  IF scanCache = Null
  THEN /\ Settle(r, i, [t EXCEPT !.findings = findings])
       /\ UNCHANGED <<scanCache, skippedFiles, mutated>>
  ELSE IF setThrows(scanCache)
  THEN /\ Skip(r, i, t)
       /\ UNCHANGED <<scanCache, mutated>>
  ELSE /\ scanCache' = set(scanCache, filePaths[r][i], getContentHash(t.content), findings, now)
       /\ mutated' = TRUE
       /\ Settle(r, i, [t EXCEPT !.findings = findings])
       /\ UNCHANGED skippedFiles

\* scanFileContent rejected.  With a cache scanFile awaits it inside its try and
\* the catch takes over; without one scanFile returns the promise unawaited, so
\* the rejection passes the catch, the task rejects and with it Promise.all.
Escape(r, i, t) ==
  IF scanCache # Null
  THEN /\ Skip(r, i, t)
       /\ UNCHANGED <<scanCache, mutated, phase>>
  ELSE /\ task' = [task EXCEPT ![r][i] = [t EXCEPT !.pc = "rejected"]]
       /\ phase' = [phase EXCEPT ![r] = "rejected"]
       /\ UNCHANGED <<scanCache, skippedFiles, completed, progress, mutated>>

ReadDone_HitRewritesEntry(r, i) ==
  /\ Pending(r)
  /\ i \in DOMAIN task[r]
  /\ task[r][i].pc = "reading"
  /\ LET p == filePaths[r][i]
         c == fs[p]
         t == [task[r][i] EXCEPT !.content = c]
     IN IF c = NoFile
        THEN /\ Skip(r, i, t)
             /\ UNCHANGED <<scanCache, cachedFiles, mutated>>
        ELSE IF scanCache # Null /\ isValidThrows(scanCache)
        THEN /\ Skip(r, i, t)
             /\ UNCHANGED <<scanCache, cachedFiles, mutated>>
        ELSE IF /\ scanCache # Null
                /\ isValid(scanCache, p, getContentHash(c))
                /\ ~getFindingsIsNull(scanCache, p)
        THEN /\ cachedFiles' = cachedFiles + 1
             /\ Settle(r, i, [t EXCEPT !.findings = getFindings(scanCache, p), !.hit = TRUE])
             /\ scanCache' = set(scanCache, p, getContentHash(c), getFindings(scanCache, p), now)
             /\ mutated' = TRUE
             /\ UNCHANGED skippedFiles
        ELSE /\ task' = [task EXCEPT ![r][i] = [t EXCEPT !.pc = "parsing"]]
             /\ UNCHANGED <<scanCache, skippedFiles, cachedFiles, completed, progress,
                            mutated>>
  /\ UNCHANGED <<disk, phase, filePaths, limitN, result, prevScan, uncached, scans,
                 writes>>
  /\ RunFrame

\* readFileContent settles; then the cache check of scanFile
ReadDone(r, i) ==
  /\ Pending(r)
  /\ i \in DOMAIN task[r]
  /\ task[r][i].pc = "reading"
  /\ LET p == filePaths[r][i]
         c == fs[p]
         t == [task[r][i] EXCEPT !.content = c]
     IN IF c = NoFile
        THEN /\ Skip(r, i, t)
             /\ UNCHANGED <<scanCache, cachedFiles, mutated>>
        ELSE IF scanCache # Null /\ isValidThrows(scanCache)
        THEN /\ Skip(r, i, t)
             /\ UNCHANGED <<scanCache, cachedFiles, mutated>>
        ELSE IF /\ scanCache # Null
                /\ isValid(scanCache, p, getContentHash(c))
                /\ ~getFindingsIsNull(scanCache, p)
        THEN /\ cachedFiles' = cachedFiles + 1
             /\ Settle(r, i, [t EXCEPT !.findings = getFindings(scanCache, p), !.hit = TRUE])
             /\ UNCHANGED <<scanCache, skippedFiles, mutated>>
        ELSE /\ task' = [task EXCEPT ![r][i] = [t EXCEPT !.pc = "parsing"]]
             /\ UNCHANGED <<scanCache, skippedFiles, cachedFiles, completed, progress,
                            mutated>>
  /\ UNCHANGED <<disk, phase, filePaths, limitN, result, prevScan, uncached, scans,
                 writes>>
  /\ RunFrame

\* prepareContext resolved; getApplicableRules; the loop reaches its first apply
ParseDone(r, i) ==
  /\ Pending(r)
  /\ i \in DOMAIN task[r]
  /\ task[r][i].pc = "parsing"
  /\ LET p == filePaths[r][i]
         rules == getApplicableRules(ruleGroups, ignoredRules, p)
         t == [task[r][i] EXCEPT !.rules = rules, !.ri = 1]
     IN IF rules = <<>>
        THEN Store(r, i, t, enrichFindingsWithDebugContext(<<>>, t.content))
        ELSE /\ task' = [task EXCEPT ![r][i] = [t EXCEPT !.pc = "rules"]]
             /\ UNCHANGED <<scanCache, skippedFiles, completed, progress, mutated>>
  /\ UNCHANGED <<disk, cachedFiles, phase, filePaths, limitN, result, prevScan,
                 uncached, scans, writes>>
  /\ RunFrame

\* one rule.apply settled; after the last one the findings are filtered and stored
RuleDone(r, i) ==
  /\ Pending(r)
  /\ i \in DOMAIN task[r]
  /\ task[r][i].pc = "rules"
  /\ LET p == filePaths[r][i]
         t0 == task[r][i]
         t == [t0 EXCEPT !.findings = applyRule(@, t0.rules[t0.ri], p, t0.content),
                         !.applied = @ + 1]
     IN IF t.ri = Len(t.rules) /\ enrichThrows(t.findings)
        THEN Escape(r, i, t)
        ELSE IF t.ri = Len(t.rules)
        THEN /\ Store(r, i, t, enrichFindingsWithDebugContext(t.findings, t.content))
             /\ UNCHANGED phase
        ELSE /\ task' = [task EXCEPT ![r][i] = [t EXCEPT !.ri = @ + 1]]
             /\ UNCHANGED <<scanCache, skippedFiles, completed, progress, mutated, phase>>
  /\ UNCHANGED <<disk, cachedFiles, filePaths, limitN, result, prevScan,
                 uncached, scans, writes>>
  /\ RunFrame

RECURSIVE flat(_)
\* results.flat()
flat(results) ==
  IF results = <<>> THEN <<>> ELSE Head(results) \o flat(Tail(results))

\* the position of the task that settled k-th
SettledAt(r, k) == CHOOSE i \in DOMAIN task[r] : task[r][i].doneAt = k

Results_InCompletionOrder(r) ==
  [k \in DOMAIN task[r] |-> task[r][SettledAt(r, k)].findings]

\* await Promise.all(scanPromises): one result per promise, at the promise's position
Results(r) == [i \in DOMAIN task[r] |-> task[r][i].findings]

ScanResult_CountsOnlyScanned(findings, total, skipped, cached) ==
  [findings |-> findings, scannedFiles |-> total - skipped - cached,
   hasSkippedFiles |-> skipped > 0, skippedFiles |-> skipped,
   hasCachedFiles |-> cached > 0, cachedFiles |-> cached]

ScanResult(findings, total, skipped, cached) ==
  [findings |-> findings, scannedFiles |-> total,
   hasSkippedFiles |-> skipped > 0, skippedFiles |-> skipped,
   hasCachedFiles |-> cached > 0, cachedFiles |-> cached]

\* what the same call returns on an engine with no cache
RECURSIVE UncachedFindings(_)
UncachedFindings(files) ==
  IF files = <<>> THEN <<>>
  ELSE (IF fs[Head(files)] = NoFile THEN <<>>
        ELSE scanFileContent(ruleGroups, ignoredRules, Head(files), fs[Head(files)]))
       \o UncachedFindings(Tail(files))

\* the same call on an engine with no cache rejects
UncachedRejects(files) ==
  \E k \in DOMAIN files :
    /\ fs[files[k]] # NoFile
    /\ scanFileContentThrows(ruleGroups, ignoredRules, files[k], fs[files[k]])

\* what this run read and returned for each path, kept for the next scan
Remembered(r) ==
  [p \in Paths |->
     IF scanCache # Null /\ \E i \in DOMAIN task[r] : filePaths[r][i] = p /\ fs[p] # NoFile
     THEN [content |-> fs[p], version |-> scanCache.version,
           findings |-> task[r][CHOOSE i \in DOMAIN task[r] : filePaths[r][i] = p].findings]
     ELSE Null]

\* all tasks settled: flatten, save the cache, resolve with the ScanResult
FinishRun(r) ==
  /\ phase[r] = "running"
  /\ \A i \in DOMAIN task[r] : task[r][i].pc = "done"
  /\ phase' = [phase EXCEPT ![r] = "done"]
  /\ result' = [result EXCEPT ![r] =
       ScanResult(flat(Results(r)), Len(filePaths[r]), skippedFiles, cachedFiles)]
  /\ uncached' = [uncached EXCEPT ![r] =
       IF UncachedRejects(filePaths[r]) THEN Null ELSE UncachedFindings(filePaths[r])]
  /\ prevScan' = Remembered(r)
  /\ IF scanCache = Null
     THEN UNCHANGED <<scanCache, disk, mutated, writes>>
     ELSE EngineSave(scanCache, writes)
  /\ UNCHANGED <<skippedFiles, cachedFiles, filePaths, limitN, task, completed, progress,
                 scans>>
  /\ RunFrame

---------------------------------------------------------------------------
(* The scheduler: scans of any input list under any concurrency bound *)

ConcurrencyInputs == {-1, 0, 1, 2}

\* project trees: every kind of file content, a missing file included
SampleTrees ==
  { [p \in Paths |-> "c1"],
    [p \in Paths |-> IF p = "/p/a.js" THEN "c2" ELSE NoFile],
    [p \in Paths |-> IF p = "/p/a.js" THEN NoFile ELSE "c2"] }

InitSched ==
  /\ scanCache = Null
  /\ disk = DiskMissing
  /\ now = 0
  /\ fs \in SampleTrees
  /\ FreshEngine
  /\ IdleRuns
  /\ NoObservations

NextSched ==
  \/ \E g \in Groups : RegisterRuleGroup(g)
  \/ \E n \in ConcurrencyInputs : SetConcurrency(n)
  \/ \E files \in FileLists : StartRun(1, files)
  \/ Admit(1)
  \/ \E i \in 1..MaxFiles : ReadDone(1, i)
  \/ \E i \in 1..MaxFiles : ParseDone(1, i)
  \/ \E i \in 1..MaxFiles : RuleDone(1, i)
  \/ FinishRun(1)

SpecSched == InitSched /\ [][NextSched]_vars

---------------------------------------------------------------------------
(* Scans with the cache wired while the rule configuration changes *)

InitRules ==
  /\ scanCache = Null
  /\ disk = DiskMissing
  /\ now = 0
  /\ fs \in [Paths -> Contents \cup {NoFile}]
  /\ FreshEngine
  /\ IdleRuns
  /\ NoObservations

NextRules ==
  \/ \E g \in Groups : RegisterRuleGroup(g)
  \/ \E ids \in SUBSET RuleIds : SetIgnoredRules(ids)
  \/ EnableCache("1.0.0")
  \/ DisableCache
  \/ \E files \in FileLists : StartRun(1, files)
  \/ Admit(1)
  \/ \E i \in 1..MaxFiles : ReadDone(1, i)
  \/ \E i \in 1..MaxFiles : ParseDone(1, i)
  \/ \E i \in 1..MaxFiles : RuleDone(1, i)
  \/ FinishRun(1)

SpecRules == InitRules /\ [][NextRules]_vars

---------------------------------------------------------------------------
(* The configuration calls of the engine, in any order *)

InitConfig ==
  /\ scanCache = Null
  /\ disk = DiskMissing
  /\ now = 0
  /\ fs = [p \in Paths |-> "c1"]
  /\ FreshEngine
  /\ IdleRuns
  /\ NoObservations

NextConfig ==
  \/ \E g \in Groups : RegisterRuleGroup(g)
  \/ \E ids \in SUBSET RuleIds : SetIgnoredRules(ids)
  \/ \E n \in ConcurrencyInputs : SetConcurrency(n)
  \/ \E v \in Versions : EnableCache(v)
  \/ DisableCache
  \/ NewEngine

SpecConfig == InitConfig /\ [][NextConfig]_vars

---------------------------------------------------------------------------
(* Scans of a project by an engine its caller has configured: rule groups   *)
(* registered, the cache enabled or not on a project directory that may     *)
(* hold a cache file from elsewhere.                                        *)

\* the sequences of registerRuleGroup calls
GroupSeqs == UNION {[1..n -> Groups] : n \in 0..MaxGroups}

InitScan ==
  /\ disk \in {DiskMissing, TextFilesNull, TextFilesArray}
  /\ scanCache \in {Null, load(ScanCache("1.0.0"), disk)}
  /\ now = 0
  /\ fs \in SampleTrees
  /\ ruleGroups \in GroupSeqs
  /\ ignoredRules = {}
  /\ skippedFiles = 0
  /\ cachedFiles = 0
  /\ concurrency = DEFAULT_CONCURRENCY
  /\ excludedPaths = {}
  /\ IdleRuns
  /\ NoObservations

NextScan ==
  \/ \E files \in FileLists : StartRun(1, files)
  \/ Admit(1)
  \/ \E i \in 1..MaxFiles : ReadDone(1, i)
  \/ \E i \in 1..MaxFiles : ParseDone(1, i)
  \/ \E i \in 1..MaxFiles : RuleDone(1, i)
  \/ FinishRun(1)

SpecScan == InitScan /\ [][NextScan]_vars

---------------------------------------------------------------------------
(* Scans, with and without the cache, of an engine that also holds a rule   *)
(* returning a malformed findings array                                     *)

InitFaulty ==
  /\ scanCache = Null
  /\ disk = DiskMissing
  /\ now = 0
  /\ fs \in SampleTrees
  /\ FreshEngine
  /\ IdleRuns
  /\ NoObservations

NextFaulty ==
  \/ \E g \in Groups \cup FaultyGroups : RegisterRuleGroup(g)
  \/ EnableCache("1.0.0")
  \/ DisableCache
  \/ \E files \in FileLists : StartRun(1, files)
  \/ Admit(1)
  \/ \E i \in 1..MaxFiles : ReadDone(1, i)
  \/ \E i \in 1..MaxFiles : ParseDone(1, i)
  \/ \E i \in 1..MaxFiles : RuleDone(1, i)
  \/ FinishRun(1)

SpecFaulty == InitFaulty /\ [][NextFaulty]_vars

---------------------------------------------------------------------------
(* Scans with the cache wired across file edits, restarts of the tool,      *)
(* tool versions, and whatever cache file the project directory holds       *)

InitRestart ==
  /\ scanCache = Null
  /\ disk \in {DiskMissing, TextFilesNull, TextFilesArray}
  /\ now = 0
  /\ fs = [p \in Paths |-> "c1"]
  /\ FreshEngine
  /\ IdleRuns
  /\ NoObservations

NextRestart ==
  \/ \E g \in Groups : RegisterRuleGroup(g)
  \/ \E v \in Versions : EnableCache(v)
  \/ NewEngine
  \/ \E c \in Contents \cup {NoFile} : WriteFile("/p/a.js", c)
  \/ \E files \in FileLists : StartRun(1, files)
  \/ Admit(1)
  \/ \E i \in 1..MaxFiles : ReadDone(1, i)
  \/ \E i \in 1..MaxFiles : ParseDone(1, i)
  \/ \E i \in 1..MaxFiles : RuleDone(1, i)
  \/ FinishRun(1)

SpecRestart == InitRestart /\ [][NextRestart]_vars

---------------------------------------------------------------------------
(* The pure functions: a call draws its arguments and leaves the engine,    *)
(* the cache and the runs alone.                                            *)

AtRest ==
  /\ scanCache = Null
  /\ disk = DiskMissing
  /\ now = 0
  /\ fs = [p \in Paths |-> "c1"]
  /\ FreshEngine
  /\ IdleRuns
  /\ lastCall = NoCall
  /\ mutated = FALSE
  /\ saver = Null
  /\ own = {}
  /\ prevScan = [p \in Paths |-> Null]
  /\ uncached = [r \in RunIds |-> <<>>]
  /\ scans = 0
  /\ writes = 0

PureFrame ==
  UNCHANGED <<cacheVars, fs, engineVars, excludedPaths, runVars, lastCall, mutated, saver,
              own, prevScan, uncached, scans, writes>>

---------------------------------------------------------------------------
(* RuleEngine.prepareContext: the payloads of the RuleContext it builds.    *)
(* The parsers are collaborators: parseJSFile succeeds on "c1" and on an    *)
(* empty file, parseJsonSafe gives an object for "c1", the value false for  *)
(* "false" and nothing for a text that is not JSON.                         *)

prepareContext_AstWithoutSuccessCheck(filePath, fileContent) ==
  LET name == PathParts(filePath).name
      ext == IF Len(name) >= 2 THEN name[Len(name)] ELSE ""
  IN [filePath |-> filePath, fileContent |-> fileContent,
      populated |-> CASE ext \in {"js", "jsx", "ts", "tsx"} -> {"ast"}
                      [] ext = "json" -> IF fileContent = "c1" THEN {"config"} ELSE {}
                      [] ext = "xml" -> {"xmlContent"}
                      [] ext = "plist" -> {"plistContent"}
                      [] OTHER -> {}]

prepareContext(filePath, fileContent) ==
  LET name == PathParts(filePath).name
      ext == IF Len(name) >= 2 THEN name[Len(name)] ELSE ""
      parseResultSuccess == fileContent \in {"c1", ""}
      configIsTruthy == fileContent = "c1"
  IN [filePath |-> filePath, fileContent |-> fileContent,
      populated |-> CASE ext \in {"js", "jsx", "ts", "tsx"} ->
                           IF parseResultSuccess THEN {"ast"} ELSE {}
                      [] ext = "json" -> IF configIsTruthy THEN {"config"} ELSE {}
                      [] ext = "xml" -> {"xmlContent"}
                      [] ext = "plist" -> {"plistContent"}
                      [] OTHER -> {}]

---------------------------------------------------------------------------
(* Heuristic classifiers on strings.  A string is the sequence of its       *)
(* characters; lengths are scaled down (a real token has tens of characters).*)

charClass(c) ==
  CASE c \in {"a", "g", "h", "p"} -> "lower"
    [] c \in {"A"} -> "upper"
    [] c \in {"1", "2"} -> "digit"
    [] OTHER -> "symbol"

\* short strings and digit-free words, phrases and dotted or separated names
isLikelyIdentifier(value) ==
  Len(value) <= 3 \/ \A k \in DOMAIN value : charClass(value[k]) # "digit"

looksLikeSecret_AnyLongValue(value) ==
  Len(value) >= 4

looksLikeSecret(value) ==
  LET classes == {charClass(value[k]) : k \in DOMAIN value}
      distinct == {value[k] : k \in DOMAIN value}
      dots == {k \in DOMAIN value : value[k] = "."}
      \* three non-empty dot-separated base64url segments, not plain dotted words
      signedToken ==
        /\ Cardinality(dots) = 2
        /\ 1 \notin dots /\ Len(value) \notin dots
        /\ \A k \in dots : k + 1 \notin dots
        /\ classes \cap {"upper", "digit"} # {}
      \* ghp_ followed by letters and digits
      vendorToken ==
        /\ Len(value) >= 5
        /\ SubSeq(value, 1, 4) = <<"g", "h", "p", "_">>
        /\ \A k \in 5..Len(value) : charClass(value[k]) # "symbol"
      \* long, of several character classes and many different characters
      highEntropy ==
        /\ Len(value) >= 4
        /\ Cardinality(classes) >= 3
        /\ Cardinality(distinct) >= 4
  IN \/ signedToken
     \/ vendorToken
     \/ highEntropy /\ ~isLikelyIdentifier(value) /\ Cardinality(distinct) > 1

\* a name split on camelCase, snake_case and dot boundaries, in lower case
splitName(name) ==
  CASE name \in {"apiKey", "api_key"} -> <<"api", "key">>
    [] name = "authToken" -> <<"auth", "token">>
    [] name = "user_password" -> <<"user", "password">>
    [] name = "passwordInput" -> <<"password", "input">>
    [] name = "emailField" -> <<"email", "field">>
    [] name = "passwordError" -> <<"password", "error">>
    [] name = "validationMessage" -> <<"validation", "message">>
    [] name = "allowedCharacters" -> <<"allowed", "characters">>
    [] name = "validCharset" -> <<"valid", "charset">>
    [] OTHER -> <<name>>

\* a whole component, or two adjacent ones, is in the dictionary
containsSensitiveKeyword(name) ==
  LET parts == splitName(name)
  IN \/ \E k \in DOMAIN parts :
          parts[k] \in {"password", "passwd", "token", "jwt", "bearer", "ssn", "creditcard",
                        "email", "phonenumber"}
     \/ \E k \in 1..(Len(parts) - 1) :
          <<parts[k], parts[k + 1]>> \in {<<"api", "key">>, <<"secret", "key">>,
                                          <<"private", "key">>}

isLikelySensitiveVariable_NameOnly(name, value) ==
  /\ containsSensitiveKeyword(name)
  /\ splitName(name)[Len(splitName(name))] \notin {"input", "field", "error", "message"}

\* the suppressions: a UI or validation suffix, a value that is a whole alphabet
isLikelySensitiveVariable(name, value) ==
  /\ containsSensitiveKeyword(name)
  /\ looksLikeSecret(value)
  /\ splitName(name)[Len(splitName(name))] \notin {"input", "field", "error", "message"}
  /\ value \notin {<<"a", "g", "h", "p">>, <<"A", "a", "g", "h", "p", "1", "2">>}

RECURSIVE getLineNumber_NewlineStartsNextLine(_, _)
getLineNumber_NewlineStartsNextLine(content, charOffset) ==
  IF charOffset = 0 THEN (IF content # <<>> /\ content[1] = "\n" THEN 2 ELSE 1)
  ELSE getLineNumber_NewlineStartsNextLine(content, charOffset - 1)
       + (IF charOffset < Len(content) /\ content[charOffset + 1] = "\n" THEN 1 ELSE 0)

RECURSIVE getLineNumber(_, _)
\* the lines of the text before the offset: one more per newline passed
getLineNumber(content, charOffset) ==
  IF charOffset = 0 THEN 1
  ELSE getLineNumber(content, charOffset - 1)
       + (IF content[charOffset] = "\n" THEN 1 ELSE 0)

---------------------------------------------------------------------------
(* FileWalker: walk(rootDir, extraExcludeGlobs)                             *)

\* the files the project directory /p can hold, in path order
WalkUniverse ==
  << "/p/App.tsx", "/p/README.md", "/p/__tests__/App.test.tsx", "/p/__tests__/helper.js",
     "/p/a.js", "/p/android/AndroidManifest.xml", "/p/app.json", "/p/b.json",
     "/p/ios/Info.plist",
     "/p/node_modules/pkg/index.js", "/p/src/components/Button.tsx", "/p/src/utils.js",
     "/p/src/utils.spec.ts", "/p/src/utils.test.ts" >>

\* a glob is **/<dir>/** ("dir"), **/*.<ext> ("ext") or the negation !**/<dir>/** ("notdir")
globMatches(g, p) ==
  CASE g.kind = "dir" -> InDir(p, g.arg)
    [] g.kind = "ext" -> Len(PathParts(p).name) >= 2 /\ extension(p) = g.arg
    [] g.kind = "notdir" -> ~InDir(p, g.arg)
    [] OTHER -> FALSE

\* dependency, hidden, build-output and test directories; *.test.* and *.spec.*
DefaultExcluded(p) ==
  \/ \E d \in {"node_modules", ".git", "build", "dist", "__tests__"} : InDir(p, d)
  \/ \E k \in 2..(Len(PathParts(p).name) - 1) : PathParts(p).name[k] \in {"test", "spec"}

Ignored_ExtraReplacesDefaults(p, extraGlobs) ==
  IF extraGlobs = {} THEN DefaultExcluded(p) ELSE \E g \in extraGlobs : globMatches(g, p)

\* the ignore list is the defaults followed by the caller's globs
Ignored(p, extraGlobs) ==
  DefaultExcluded(p) \/ \E g \in extraGlobs : globMatches(g, p)

\* tree: the files below /p; any other root does not exist
walkProjectFiles(tree, rootDir, extraGlobs) ==
  LET Bucket(exts) ==
        IF rootDir # "/p" THEN <<>>
        ELSE SelectSeq(WalkUniverse,
                       LAMBDA p : p \in tree /\ extension(p) \in exts
                                  /\ ~Ignored(p, extraGlobs))
  IN [jsFiles |-> Bucket({"js", "jsx", "ts", "tsx"}), jsonFiles |-> Bucket({"json"}),
      xmlFiles |-> Bucket({"xml"}), plistFiles |-> Bucket({"plist"})]

---------------------------------------------------------------------------
(* Calls of the pure functions on arguments drawn from their input sets *)

\* the arguments the calls are made with
PureInputs ==
  \* every subset of the project files, an existing and a missing root, caller globs
  [fn : {"walkProjectFiles"},
   tree : SUBSET {WalkUniverse[k] : k \in DOMAIN WalkUniverse},
   rootDir : {"/p", "/nonexistent"},
   extra : SUBSET {[kind |-> "dir", arg |-> "components"], [kind |-> "ext", arg |-> "json"],
                   [kind |-> "notdir", arg |-> "node_modules"]}]
  \cup
  \* the texts and paths of the unit tests of isInDebugContext
  [fn : {"isInDebugContext"},
   code : {"", "if (__DEV__) { console.log(\"debug\"); }",
           "if (process.env.NODE_ENV === \"development\") {}",
           "process.env.NODE_ENV === \"production\"", "if (DEBUG) { logDetails(); }",
           "const x = 1;", "export default App;"},
   snippet : {"", "__DEV__ && console.log(\"debug\")", "process.env.NODE_ENV !== \"production\"",
              "DEBUG && console.log(data)", "fetch(url)"},
   filePath : {"", "/src/debug/utils.js", "/app/__tests__/app.test.ts",
               "/storybook/Button.stories.tsx", "/src/utils.test.ts", "/src/utils.spec.js",
               "/__mocks__/api.js", "/node_modules/package/index.js", "/src/App.tsx",
               "/components/Button.tsx"}]
  \cup
  \* every string up to the length bound
  [fn : {"looksLikeSecret"},
   value : UNION {[1..n -> {"a", "g", "h", "p", "A", "1", "2", "_", "."}] : n \in 0..MaxLen}]
  \cup
  \* the names of the unit tests with a word, two tokens, a mixed value and two alphabets
  [fn : {"isLikelySensitiveVariable"},
   name : {"apiKey", "api_key", "authToken", "user_password", "passwordInput", "emailField",
           "passwordError", "validationMessage", "allowedCharacters", "validCharset",
           "username"},
   value : {<<"a", "g", "a", "g">>, <<"g", "h", "p", "_", "A">>, <<"A", ".", "1", ".", "a">>,
            <<"a", "A", "1", "_", "2">>, <<"a", "g", "h", "p">>,
            <<"A", "a", "g", "h", "p", "1", "2">>}]
  \cup
  \* every text of letters and newlines up to the length bound, every offset into it
  UNION {[fn : {"getLineNumber"}, content : [1..n -> {"x", "\n"}], charOffset : 0..n] :
           n \in 0..MaxLen}
  \cup
  \* a file of every extension with a text that parses, one that does not, a
  \* JSON value that is falsy and an empty text
  [fn : {"prepareContext"},
   filePath : {"/p/src/utils.js", "/p/src/components/Input.jsx", "/p/src/utils.test.ts",
               "/p/App.tsx", "/p/app.json", "/p/android/AndroidManifest.xml",
               "/p/ios/Info.plist", "/p/README.md"},
   fileContent : {"c1", "c2", "false", ""}]

\* one call: the function named by the arguments is applied to them
PureCall(fn, ret) ==
  /\ input.fn = fn
  /\ output = Null
  /\ output' = [ret |-> ret]
  /\ UNCHANGED input
  /\ PureFrame

InitPure ==
  /\ AtRest
  /\ input \in PureInputs
  /\ output = Null

NextPure ==
  \/ PureCall("walkProjectFiles",
              walkProjectFiles(input.tree, input.rootDir, input.extra))
  \/ PureCall("isInDebugContext",
              isInDebugContext(input.code, input.snippet, input.filePath))
  \/ PureCall("looksLikeSecret", looksLikeSecret(input.value))
  \/ PureCall("isLikelySensitiveVariable",
              isLikelySensitiveVariable(input.name, input.value))
  \/ PureCall("getLineNumber", getLineNumber(input.content, input.charOffset))
  \/ PureCall("prepareContext", prepareContext(input.filePath, input.fileContent))

SpecPure == InitPure /\ [][NextPure]_vars

---------------------------------------------------------------------------
(* RuleEngine.runRulesOnProject: the walk of the project directory, then    *)
(* the scan of the files it returned                                        *)

SetExcludedPaths(exclude) ==
  /\ NoRunActive
  /\ excludedPaths' = exclude
  /\ UNCHANGED <<scanCache, disk, mutated, fs, pureVars, ruleGroups, ignoredRules,
                 concurrency, skippedFiles, cachedFiles, saver, own, prevScan>>
  /\ EngineFrame

\* up to the first await: the counters are reset and the walk is called with the
\* directory and the globs the engine holds at that moment
StartProject(r, rootDir) ==
  /\ NoRunActive
  /\ scans < MaxScans
  /\ scans' = scans + 1
  /\ phase' = [phase EXCEPT ![r] = "walking"]
  /\ skippedFiles' = 0
  /\ cachedFiles' = 0
  /\ input' = [fn |-> "walkProjectFiles", tree |-> {p \in Paths : fs[p] # NoFile},
               rootDir |-> rootDir, extra |-> excludedPaths]
  /\ output' = Null
  /\ filePaths' = [filePaths EXCEPT ![r] = <<>>]
  /\ limitN' = [limitN EXCEPT ![r] = 0]
  /\ task' = [task EXCEPT ![r] = <<>>]
  /\ completed' = [completed EXCEPT ![r] = 0]
  /\ progress' = [progress EXCEPT ![r] = <<>>]
  /\ result' = [result EXCEPT ![r] = Null]
  /\ uncached' = [uncached EXCEPT ![r] = <<>>]
  /\ writes' = 0
  /\ UNCHANGED <<scanCache, disk, mutated, prevScan, now, fs, excludedPaths, ruleGroups,
                 ignoredRules, concurrency, lastCall, saver, own>>

allFiles_ConfigFirst(fileGroup) ==
  fileGroup.jsonFiles \o fileGroup.jsFiles \o fileGroup.xmlFiles \o fileGroup.plistFiles

\* [...jsFiles, ...jsonFiles, ...xmlFiles, ...plistFiles]
allFiles(fileGroup) ==
  fileGroup.jsFiles \o fileGroup.jsonFiles \o fileGroup.xmlFiles \o fileGroup.plistFiles

\* the walk resolves: the limiter is made with the concurrency of this moment and
\* one task per file is handed to it
WalkDone(r) ==
  /\ phase[r] = "walking"
  /\ LET fileGroup == walkProjectFiles(input.tree, input.rootDir, input.extra)
     IN /\ output' = [ret |-> fileGroup]
        /\ filePaths' = [filePaths EXCEPT ![r] = allFiles(fileGroup)]
        /\ task' = [task EXCEPT ![r] = [i \in DOMAIN allFiles(fileGroup) |-> QueuedTask]]
  /\ phase' = [phase EXCEPT ![r] = "running"]
  /\ limitN' = [limitN EXCEPT ![r] = concurrency]
  /\ UNCHANGED <<scanCache, disk, mutated, prevScan, now, fs, excludedPaths, input,
                 ruleGroups, ignoredRules, concurrency, lastCall, saver, own, scans,
                 writes, skippedFiles, cachedFiles, completed, progress, result, uncached>>

\* project scans of an engine configured as for SpecScan, with any globs excluded
NextProject ==
  \/ \E exclude \in SUBSET {[kind |-> "ext", arg |-> "json"],
                             [kind |-> "dir", arg |-> "components"]} :
       SetExcludedPaths(exclude)
  \/ \E rootDir \in {"/p", "/nonexistent"} : StartProject(1, rootDir)
  \/ WalkDone(1)
  \/ Admit(1)
  \/ \E i \in 1..MaxFiles : ReadDone(1, i)
  \/ \E i \in 1..MaxFiles : ParseDone(1, i)
  \/ \E i \in 1..MaxFiles : RuleDone(1, i)
  \/ FinishRun(1)

SpecProject == InitScan /\ [][NextProject]_vars

---------------------------------------------------------------------------
(* Claims about the ScanCache, checked under SpecCache *)

Mutators == {"set", "remove", "clear", "prune"}

\* C5: on an enabled cache, whatever set, remove, clear, prune and load did before,
\* isValid(path, hash) is true exactly when an entry exists for path whose stored hash
\* is hash and whose stored version is the version the cache was constructed with;
\* right after set(path, h, f) it is false for every other hash.
C5_IsValidIffEntryMatches ==
  scanCache.enabled =>
    /\ \A p \in Paths, h \in Hashes :
         (~isValidThrows(scanCache) /\ isValid(scanCache, p, h))
           <=> \E q \in DOMAIN scanCache.cache.files :
                 /\ q = p
                 /\ scanCache.cache.files[q].hash = h
                 /\ scanCache.cache.files[q].version = scanCache.version
    /\ (lastCall.op = "set" /\ ~lastCall.threw) =>
         /\ isValid(scanCache, lastCall.path, lastCall.hash)
         /\ \A h2 \in Hashes \ {lastCall.hash} : ~isValid(scanCache, lastCall.path, h2)

\* a set on an enabled cache that also holds an entry of another version
C5_Witness ==
  /\ scanCache.enabled
  /\ lastCall.op = "set"
  /\ ~lastCall.threw
  /\ \E q \in DOMAIN scanCache.cache.files :
       /\ q # lastCall.path
       /\ scanCache.cache.files[q].version # scanCache.version
       /\ ~isValid(scanCache, q, scanCache.cache.files[q].hash)

\* C6: after a cache of version v2 loads the file a cache of another version v saved,
\* no entry that the saving cache wrote is valid, for any hash.
C6_OtherVersionNeverValid ==
  (lastCall.op = "load" /\ saver # Null /\ saver.version # scanCache.version) =>
    \A p \in saver.own, h \in Hashes :
      ~isValidThrows(scanCache) /\ ~isValid(scanCache, p, h)

\* a new cache of another version has loaded an entry with the hash it is asked about
C6_Witness ==
  /\ lastCall.op = "load"
  /\ lastCall.fresh
  /\ saver # Null
  /\ saver.version # scanCache.version
  /\ \E p \in saver.own :
       /\ HasEntry(scanCache, p)
       /\ scanCache.cache.files[p].hash = saver.cache.files[p].hash

SaverInstance ==
  [cache |-> saver.cache, version |-> saver.version, isDirty |-> FALSE, enabled |-> TRUE]

\* C7: a new ScanCache of the same version that loads the file another instance
\* saved answers isValid and getFindings as the saving instance did.
C7_SaveLoadRoundTrip ==
  (lastCall.op = "load" /\ lastCall.fresh /\ saver # Null
     /\ saver.version = scanCache.version) =>
    \A p \in Paths :
      /\ getFindingsThrows(scanCache) = getFindingsThrows(SaverInstance)
      /\ getFindingsIsNull(scanCache, p) = getFindingsIsNull(SaverInstance, p)
      /\ getFindings(scanCache, p) = getFindings(SaverInstance, p)
      /\ \A h \in Hashes : isValid(scanCache, p, h) = isValid(SaverInstance, p, h)

\* C8: while the cache is disabled every query misses and set, remove, clear and
\* prune change neither the entry map nor the dirty flag and raise no error.
C8_DisabledIsInert ==
  ~scanCache.enabled =>
    /\ \A p \in Paths, h \in Hashes :
         /\ ~isValidThrows(scanCache) /\ ~isValid(scanCache, p, h)
         /\ ~getFindingsThrows(scanCache) /\ getFindingsIsNull(scanCache, p)
    /\ lastCall.op \in Mutators => ~lastCall.threw /\ ~lastCall.changed

\* C9: save writes the file exactly when the cache is enabled and a mutation took
\* effect since the last successful save, and a successful save leaves it clean.
C9_SaveWritesIffDirty ==
  lastCall.op = "save" =>
    /\ lastCall.wrote <=> lastCall.due
    /\ lastCall.ok => ~scanCache.isDirty /\ ~saveWrites(scanCache)

\* a save that wrote, followed at once by a save that had nothing to write
C9_Witness ==
  /\ lastCall.op = "save"
  /\ ~lastCall.wrote
  /\ scanCache.enabled
  /\ saver # Null
  /\ saver.cache = scanCache.cache
  /\ getStats(scanCache) > 0

\* C10: load never throws, and on an enabled cache whose file is missing, not
\* parseable or not of the schema it leaves zero entries and a cache on which
\* isValid, getFindings and set work.
C10_LoadToleratesBadFile ==
  (lastCall.op = "load" /\ scanCache.enabled
     /\ ~(disk.j = "data" /\ disk.kind = "object")) =>
    /\ ~lastCall.threw
    /\ getStats(scanCache) = 0
    /\ ~isValidThrows(scanCache)
    /\ ~getFindingsThrows(scanCache)
    /\ ~setThrows(scanCache)

---------------------------------------------------------------------------
(* Claims about the scheduler, checked under SpecSched *)

RECURSIVE InInputOrder(_, _)
\* the findings each task returned, joined from position i of the input list on
InInputOrder(r, i) ==
  IF i > Len(filePaths[r]) THEN <<>>
  ELSE task[r][i].findings \o InInputOrder(r, i + 1)

\* C1: whatever the input list, the bound and the order in which the tasks
\* settle, the findings of the ScanResult are the per-file findings joined in
\* input-list order: what each task returned, which is what scanning each file
\* of the list in turn yields.
C1_FindingsInInputOrder ==
  \A r \in RunIds :
    phase[r] = "done" =>
      /\ result[r].findings = InInputOrder(r, 1)
      /\ result[r].findings = uncached[r]

\* a finished run whose later-listed file settled first, both with findings
C1_Witness ==
  /\ phase[1] = "done"
  /\ \E i, j \in DOMAIN task[1] :
       /\ i < j
       /\ task[1][i].doneAt > task[1][j].doneAt
       /\ filePaths[1][i] # filePaths[1][j]
       /\ task[1][i].findings # <<>>
       /\ task[1][j].findings # <<>>
  /\ result[1].findings # <<>>

\* C2: at every point of a run at most N tasks have started and not settled,
\* N being the bound the engine was configured with when the run started (at
\* least 1); a queued task starts only when fewer than N are in flight.
C2_InFlightAtMostN ==
  \A r \in RunIds :
    phase[r] = "running" =>
      /\ limitN[r] >= 1
      /\ Cardinality(InFlight(r)) <= limitN[r]

\* the limiter is full and a task is waiting
C2_Witness ==
  /\ phase[1] = "running"
  /\ Cardinality(InFlight(1)) = limitN[1]
  /\ Queued(1) # {}

---------------------------------------------------------------------------
(* Claims about scans with the cache, checked under SpecRules and SpecRestart *)

ToSet(seq) == {seq[i] : i \in DOMAIN seq}

\* C3: a scan made with the cache enabled returns the same set of findings as
\* the same scan made without a cache, also after the registered or ignored
\* rules changed since an entry was cached.
C3_CacheNeverChangesFindings ==
  \A r \in RunIds :
    (phase[r] = "done" /\ scanCache # Null) =>
      ToSet(result[r].findings) = ToSet(uncached[r])

\* C4: with the cache enabled, a file the previous scan read and whose bytes and
\* tool version are the same now is served from the cache once its task has
\* settled: same findings as before, counted in cachedFiles, no rule applied.
C4_UnchangedFileServedFromCache ==
  \A i \in DOMAIN task[1] :
    LET p == filePaths[1][i]
        t == task[1][i]
    IN (/\ phase[1] = "running"
        /\ t.pc = "done"
        /\ scanCache # Null
        /\ prevScan[p] # Null
        /\ prevScan[p].content = fs[p]
        /\ prevScan[p].version = scanCache.version)
       => /\ t.hit
          /\ t.applied = 0
          /\ t.findings = prevScan[p].findings
          /\ cachedFiles = Cardinality({j \in DOMAIN task[1] : task[1][j].hit})

---------------------------------------------------------------------------
(* Claims about pruning, checked under SpecPrune *)

\* the entries a prune call with these arguments is to remove
ToPrune(files, existing, maxAgeMs, t) ==
  {p \in DOMAIN files : p \notin existing \/ files[p].timestamp < t - maxAgeMs}

\* C11: every prune(existingPaths, maxAgeMs) call returns, removes exactly the
\* entries whose path is not in existingPaths or whose timestamp is older than
\* now - maxAgeMs, leaves the other entries as they were, and returns the
\* number removed, which is the drop of the entry count.
C11_PruneRemovesExactlyStale ==
  [][lastCall'.op = "prune" =>
       LET before == scanCache.cache.files
           after  == scanCache'.cache.files
           gone   == ToPrune(before, lastCall'.existing, lastCall'.maxAge, now)
       IN /\ ~lastCall'.threw
          /\ DOMAIN after = (DOMAIN before) \ gone
          /\ \A p \in DOMAIN after : after[p] = before[p]
          /\ lastCall'.ret = Cardinality(gone)
          /\ Cardinality(DOMAIN after) = Cardinality(DOMAIN before) - lastCall'.ret]_vars

---------------------------------------------------------------------------
(* Claims about failures during a run *)

\* the positions of the input list whose file could not be read
ReadFailed(r) == {i \in DOMAIN task[r] : task[r][i].content = NoFile}

\* C12: when a run has resolved, every task has settled, a file whose read
\* failed contributed no findings, and skippedFiles is the number of input
\* files whose read failed.
C12_SkippedCountsReadFailures ==
  \A r \in RunIds :
    phase[r] = "done" =>
      /\ \A i \in DOMAIN task[r] : task[r][i].pc = "done"
      /\ \A i \in ReadFailed(r) : task[r][i].findings = <<>>
      /\ result[r].skippedFiles = Cardinality(ReadFailed(r))

RECURSIVE FromWorkingRules(_, _, _)
\* what the rules of a list that do not fail on a file return for it, in rule order
FromWorkingRules(rules, p, c) ==
  IF rules = <<>> THEN <<>>
  ELSE (IF applyThrows(Head(rules), p, c) THEN <<>> ELSE apply(Head(rules), p, c))
       \o FromWorkingRules(Tail(rules), p, c)

\* the rules of a task that fail on its file
FailingRules(r, i) ==
  {k \in DOMAIN task[r][i].rules :
     applyThrows(task[r][i].rules[k], filePaths[r][i], task[r][i].content)}

\* C13: when a rule's apply fails on a file (and the findings of the other
\* rules are well-formed), the task still invokes every applicable rule, keeps
\* what the other rules returned (in rule order, less the debug-context
\* findings), and the file is not counted as skipped; the skipped counter
\* counts only the tasks that were skipped.
C13_RuleFailureIsIsolated ==
  \A r \in RunIds :
    /\ \A i \in DOMAIN task[r] :
         (/\ task[r][i].pc = "done"
          /\ FailingRules(r, i) # {}
          /\ ~enrichThrows(FromWorkingRules(task[r][i].rules, filePaths[r][i],
                                            task[r][i].content))) =>
           /\ ~task[r][i].skipped
           /\ task[r][i].applied = Len(task[r][i].rules)
           /\ task[r][i].findings =
                SelectSeq(FromWorkingRules(task[r][i].rules, filePaths[r][i],
                                           task[r][i].content),
                          LAMBDA f : ~isInDebugContext(task[r][i].content, f.snippet,
                                                       f.filePath))
    /\ phase[r] = "running" =>
         skippedFiles = Cardinality({i \in DOMAIN task[r] : task[r][i].skipped})

\* a settled task whose second rule failed between two rules that returned findings
C13_Witness ==
  \E i \in DOMAIN task[1] :
    /\ task[1][i].pc = "done"
    /\ Len(task[1][i].rules) = 3
    /\ FailingRules(1, i) = {2}
    /\ Len(task[1][i].findings) = 2
    /\ scanCache # Null

\* C14: a run never rejects, with the cache or without it, whatever fails while
\* a file is read, parsed, put in a context, checked by the rules or filtered.
C14_RunNeverRejects == \A r \in RunIds : phase[r] # "rejected"

---------------------------------------------------------------------------
(* Claims about what a run reports *)

\* the tasks of a run that are neither waiting nor in flight
Settled(r) == {i \in DOMAIN task[r] : task[r][i].pc \in {"done", "rejected"}}

\* C15: the progress callback is invoked once after each input file, with
\* current = 1, 2, ... in that order, so that once every task of the run has
\* settled it was invoked total times, the last time with current = total.
C15_ProgressCountsEveryFile ==
  \A r \in RunIds :
    /\ progress[r] = [k \in 1..Len(progress[r]) |-> k]
    /\ Len(progress[r]) <= Len(filePaths[r])
    /\ (phase[r] # "idle" /\ Settled(r) = DOMAIN task[r]) =>
         progress[r] = [k \in 1..Len(filePaths[r]) |-> k]

---------------------------------------------------------------------------
(* Claims about the configuration of the engine, checked under SpecConfig *)

RECURSIVE RuleAt(_, _)
\* the k-th rule counting through the groups in the order they were registered
RuleAt(groups, k) ==
  IF k <= Len(Head(groups)) THEN Head(groups)[k]
  ELSE RuleAt(Tail(groups), k - Len(Head(groups)))

RECURSIVE CountRules(_)
CountRules(groups) ==
  IF groups = <<>> THEN 0 ELSE Len(Head(groups)) + CountRules(Tail(groups))

\* the positions of that count whose rule is not ignored
KeptAt(groups, ignored) ==
  {k \in 1..CountRules(groups) : RuleAt(groups, k) \notin ignored}

\* a sequence lists exactly the kept rules in their registration order
ListsKept(rules, groups, ignored) ==
  /\ Len(rules) = Cardinality(KeptAt(groups, ignored))
  /\ \A n \in DOMAIN rules :
       \E k \in KeptAt(groups, ignored) :
         /\ Cardinality({j \in KeptAt(groups, ignored) : j <= k}) = n
         /\ rules[n] = RuleAt(groups, k)

\* C17: getAllRules lists the rules of all registered groups, groups in
\* registration order and rules in their order inside the group, without
\* exactly the rules whose id is in the ignore set; a setIgnoredRules call
\* makes its argument the whole ignore set, forgetting the previous one.
C17_GetAllRulesFlattensAndFilters ==
  /\ [](ListsKept(getAllRules(ruleGroups, ignoredRules), ruleGroups, ignoredRules))
  /\ [][\A ids \in SUBSET RuleIds :
          SetIgnoredRules(ids) =>
            /\ ignoredRules' = ids
            /\ ListsKept(getAllRules(ruleGroups', ignoredRules'), ruleGroups, ids)]_vars

\* two groups registered, a rule of the second ignored, after another rule was ignored
C17_Witness ==
  /\ Len(ruleGroups) = 2
  /\ ruleGroups[1] # ruleGroups[2]
  /\ ignoredRules = {"R2"}
  /\ Len(getAllRules(ruleGroups, ignoredRules)) = 2

\* the greater of 1 and n
AtLeastOne(n) == CHOOSE m \in {1, n} : m >= 1 /\ m >= n

\* C18: a fresh engine has concurrency 10; after every setConcurrency(n), for
\* any integer n, the concurrency is max(1, n), hence at least 1 at all times;
\* the call is possible in every state and raises nothing.
C18_ConcurrencyClamped ==
  /\ concurrency = 10
  /\ [](concurrency >= 1)
  /\ [](\A n \in ConcurrencyInputs : ENABLED SetConcurrency(n))
  /\ [][/\ \A n \in ConcurrencyInputs : SetConcurrency(n) => concurrency' = AtLeastOne(n)
        /\ NewEngine => concurrency' = 10]_vars

\* the engine was given a bound below 1 and holds 1
C18_Witness ==
  /\ concurrency = 1
  /\ Len(ruleGroups) = 1
  /\ scanCache # Null

---------------------------------------------------------------------------
(* Claims about what a run returns, checked under SpecScan *)

\* the files of run r whose scan ended in the catch of scanFile
SkippedIn(r) == {i \in DOMAIN task[r] : task[r][i].skipped}

\* the files of run r answered from the cache
CachedIn(r) == {i \in DOMAIN task[r] : task[r][i].hit}

\* C19: the ScanResult of a run has scannedFiles equal to the length of the
\* input list, skipped and cached files included; skippedFiles is present iff
\* the skipped counter is above 0 and then equals it, and likewise cachedFiles;
\* the counters are the numbers of files the run skipped and took from the cache.
C19_ResultCounts ==
  \A r \in RunIds :
    result[r] # Null =>
      /\ result[r].scannedFiles = Len(filePaths[r])
      /\ skippedFiles = Cardinality(SkippedIn(r))
      /\ cachedFiles = Cardinality(CachedIn(r))
      /\ result[r].hasSkippedFiles <=> skippedFiles > 0
      /\ result[r].hasSkippedFiles => result[r].skippedFiles = skippedFiles
      /\ result[r].hasCachedFiles <=> cachedFiles > 0
      /\ result[r].hasCachedFiles => result[r].cachedFiles = cachedFiles

\* a run of two files returned with one of them skipped and the other cached
C19_Witness ==
  \E r \in RunIds :
    /\ result[r] # Null
    /\ result[r].scannedFiles = 2
    /\ result[r].hasSkippedFiles /\ result[r].skippedFiles = 1
    /\ result[r].hasCachedFiles /\ result[r].cachedFiles = 1

\* a finding of the file at its path is in a debug context
InDebug(f) == isInDebugContext(fs[f.filePath], f.snippet, f.filePath)

\* what the rules in force that do not fail on the file at p return for it
Produced(p) ==
  FromWorkingRules(getApplicableRules(ruleGroups, ignoredRules, p), p, fs[p])

\* the positions of a sequence of findings that are not in a debug context
Reportable(all) == {k \in DOMAIN all : ~InDebug(all[k])}

\* a sequence keeps exactly the reportable findings of another, in its order
KeepsReportable(kept, all) ==
  /\ Len(kept) = Cardinality(Reportable(all))
  /\ \A n \in DOMAIN kept :
       \E k \in Reportable(all) :
         /\ Cardinality({j \in Reportable(all) : j <= k}) = n
         /\ kept[n] = all[k]

\* C20: no finding that isInDebugContext classifies as debug context (by the
\* file content, its snippet or its path) is in a ScanResult or in an entry of
\* the cache; every other finding that a non-failing rule produced for a file
\* that was scanned is kept for that file, in rule order.
C20_DebugFindingsDropped ==
  /\ \A r \in RunIds :
       result[r] # Null =>
         \A k \in DOMAIN result[r].findings : ~InDebug(result[r].findings[k])
  /\ scanCache # Null =>
       \A p \in DOMAIN scanCache.cache.files :
         \A k \in DOMAIN scanCache.cache.files[p].findings :
           ~InDebug(scanCache.cache.files[p].findings[k])
  /\ \A r \in RunIds : \A i \in DOMAIN task[r] :
       (task[r][i].pc = "done" /\ ~task[r][i].skipped) =>
         KeepsReportable(task[r][i].findings, Produced(filePaths[r][i]))

\* a returned run with a cache in which a rule produced a debug-context
\* finding between findings that were reported and stored
C20_Witness ==
  \E i \in DOMAIN task[1] :
    /\ result[1] # Null
    /\ scanCache # Null
    /\ HasEntry(scanCache, filePaths[1][i])
    /\ Reportable(Produced(filePaths[1][i])) # DOMAIN Produced(filePaths[1][i])
    /\ Len(task[1][i].findings) >= 2
    /\ Len(result[1].findings) >= 2

---------------------------------------------------------------------------
(* Claims about the pure functions, checked under SpecPure *)

\* every path a walk returned
Walked(w) ==
  {w.jsFiles[k] : k \in DOMAIN w.jsFiles} \cup {w.jsonFiles[k] : k \in DOMAIN w.jsonFiles}
  \cup {w.xmlFiles[k] : k \in DOMAIN w.xmlFiles}
  \cup {w.plistFiles[k] : k \in DOMAIN w.plistFiles}

\* C21: whatever extra globs the caller gives, a walk returns no path that a
\* default exclusion matches and no path that an extra glob matches, and it
\* returns only paths that the walk with no extra glob returns: caller
\* patterns shrink the result and never re-admit a default-excluded path.
C21_ExtraGlobsOnlyShrink ==
  (input.fn = "walkProjectFiles" /\ output # Null) =>
    /\ \A p \in Walked(output.ret) :
         /\ ~DefaultExcluded(p)
         /\ \A g \in input.extra : ~globMatches(g, p)
    /\ Walked(output.ret) \subseteq Walked(walkProjectFiles(input.tree, input.rootDir, {}))

\* a walk with a negated dependency-directory glob over a tree that holds a
\* dependency file, a test file and a source file that no glob matches
C21_Witness ==
  /\ input.fn = "walkProjectFiles"
  /\ output # Null
  /\ [kind |-> "notdir", arg |-> "node_modules"] \in input.extra
  /\ {"/p/node_modules/pkg/index.js", "/p/src/utils.test.ts", "/p/src/utils.js"}
       \subseteq input.tree
  /\ Walked(output.ret) = {}

\* C22: isInDebugContext(code, snippet, filePath) is true iff at least one
\* signal is present - the code or the snippet holds a development-flag guard
\* (__DEV__, a NODE_ENV development check, a DEBUG guard) or the path follows
\* a development-artifact convention (test or spec file, __tests__, __mocks__,
\* stories, debug directory, node_modules); with no signal it is false.  The
\* texts and paths with a signal are the ones the unit tests expect true for.
C22_DebugContextIffSignal ==
  (input.fn = "isInDebugContext" /\ output # Null) =>
    (output.ret <=>
       \/ input.code \in {"if (__DEV__) { console.log(\"debug\"); }",
                          "if (process.env.NODE_ENV === \"development\") {}",
                          "if (DEBUG) { logDetails(); }"}
       \/ input.snippet \in {"__DEV__ && console.log(\"debug\")",
                             "process.env.NODE_ENV !== \"production\"",
                             "DEBUG && console.log(data)"}
       \/ input.filePath \in {"/src/debug/utils.js", "/app/__tests__/app.test.ts",
                              "/storybook/Button.stories.tsx", "/src/utils.test.ts",
                              "/src/utils.spec.js", "/__mocks__/api.js",
                              "/node_modules/package/index.js"})

\* a query whose only signal is the guard in the snippet
C22_Witness ==
  /\ input.fn = "isInDebugContext"
  /\ input.code = "const x = 1;"
  /\ input.snippet = "DEBUG && console.log(data)"
  /\ input.filePath = "/src/App.tsx"
  /\ output = [ret |-> TRUE]

\* every character of a string is one of the given characters
MadeOf(value, chars) == \A k \in DOMAIN value : value[k] \in chars

C24_SensitiveIffBoth ==
  (input.fn = "isLikelySensitiveVariable" /\ output # Null) =>
    /\ output.ret <=>
         /\ input.name \in {"apiKey", "api_key", "authToken", "user_password"}
         /\ input.value \in {<<"g", "h", "p", "_", "A">>, <<"A", ".", "1", ".", "a">>,
                             <<"a", "A", "1", "_", "2">>}
    /\ (~containsSensitiveKeyword(input.name) \/ ~looksLikeSecret(input.value)) => ~output.ret

\* a sensitive name with a token is flagged
C24_Witness ==
  /\ input.fn = "isLikelySensitiveVariable"
  /\ input.name = "authToken"
  /\ input.value = <<"A", ".", "1", ".", "a">>
  /\ output = [ret |-> TRUE]

\* C25: getLineNumber(content, charOffset) is 1 + the number of newline
\* characters at positions strictly before charOffset, for every content and
\* every offset from 0 to the length of the content; an offset that points at
\* a newline is on the line that newline ends; the result never decreases as
\* the offset grows.  (Position k, counted from 0, is element k + 1.)
C25_LineNumberCountsNewlinesBefore ==
  (input.fn = "getLineNumber" /\ output # Null) =>
    LET content == input.content
        off == input.charOffset
    IN /\ output.ret = 1 + Cardinality({k \in 1..off : content[k] = "\n"})
       /\ (off < Len(content) /\ content[off + 1] = "\n") =>
            /\ off > 0 => output.ret = getLineNumber(content, off - 1)
                                         + (IF content[off] = "\n" THEN 1 ELSE 0)
            /\ getLineNumber(content, off + 1) = output.ret + 1
       /\ \A o \in 0..off : getLineNumber(content, o) <= output.ret

\* the offset of the newline that ends the second line of a text
C25_Witness ==
  /\ input.fn = "getLineNumber"
  /\ input.content = <<"x", "\n", "x", "\n">>
  /\ input.charOffset = 3
  /\ output = [ret |-> 2]

---------------------------------------------------------------------------
(* Claims about the per-file pipeline *)

\* the registrations, counted through the groups, of the rules that are not
\* ignored and have a suffix the path ends with
ApplicableAt(p) ==
  {k \in 1..CountRules(ruleGroups) :
     /\ RuleAt(ruleGroups, k) \notin ignoredRules
     /\ \E type \in fileTypes(RuleAt(ruleGroups, k)) : endsWith(p, type)}

\* C26: for each file that is read successfully and not served from the
\* cache, apply is invoked exactly once for each registered rule that is not
\* ignored and has a fileTypes suffix the path ends with, in registration
\* order, and for no other rule; no rule is applied to a file whose path
\* matches none of its suffixes.
C26_ApplicableRulesAppliedOnce ==
  \A r \in RunIds : \A i \in DOMAIN task[r] :
    LET t == task[r][i]
        p == filePaths[r][i]
    IN /\ (t.pc = "done" /\ t.content # NoFile /\ ~t.hit) =>
            /\ t.applied = Cardinality(ApplicableAt(p))
            /\ \A n \in 1..t.applied :
                 \E k \in ApplicableAt(p) :
                   /\ Cardinality({j \in ApplicableAt(p) : j <= k}) = n
                   /\ t.rules[n] = RuleAt(ruleGroups, k)
       /\ \A n \in 1..t.applied :
            /\ t.rules[n] \notin ignoredRules
            /\ \E type \in fileTypes(t.rules[n]) : endsWith(p, type)

\* C27: after a run with caching enabled has completed, for every input file
\* that was read successfully the cache holds an entry whose hash is the
\* fingerprint of the content read, whose version is the running version and
\* whose findings are exactly the filtered findings the run returned for it.
C27_CacheHoldsWhatWasReturned ==
  \A r \in RunIds :
    (phase[r] = "done" /\ scanCache # Null) =>
      \A i \in DOMAIN task[r] :
        task[r][i].content # NoFile =>
          /\ HasEntry(scanCache, filePaths[r][i])
          /\ scanCache.cache.files[filePaths[r][i]].hash = getContentHash(task[r][i].content)
          /\ scanCache.cache.files[filePaths[r][i]].version = scanCache.version
          /\ scanCache.cache.files[filePaths[r][i]].findings = task[r][i].findings

\* the payload that belongs to the extension of a path, if any
PayloadFor(p) ==
  CASE p \in {"/p/src/utils.js", "/p/src/components/Input.jsx", "/p/src/utils.test.ts",
              "/p/App.tsx"} -> {"ast"}
    [] p = "/p/app.json" -> {"config"}
    [] p = "/p/android/AndroidManifest.xml" -> {"xmlContent"}
    [] p = "/p/ios/Info.plist" -> {"plistContent"}
    [] OTHER -> {}

\* C28 as stated: every RuleContext built for a file has exactly one of ast,
\* config, xmlContent and plistContent populated, chosen by the file
\* extension alone.
C28_ExactlyOnePayload ==
  (input.fn = "prepareContext" /\ output # Null) =>
    /\ Cardinality(output.ret.populated) = 1
    /\ output.ret.populated = PayloadFor(input.filePath)

\* C28, amended: every RuleContext has at most one of the four payloads
\* populated, and only the one that belongs to the extension of the path (ast
\* for .js, .jsx, .ts, .tsx; config for .json; xmlContent for .xml;
\* plistContent for .plist); xmlContent and plistContent are always populated
\* for their extensions, ast only when the parser succeeded and config only
\* when the JSON text gave a truthy value; otherwise, and for any other
\* extension, no payload is populated.
C28_AtMostOnePayloadByExtension ==
  (input.fn = "prepareContext" /\ output # Null) =>
    /\ Cardinality(output.ret.populated) <= 1
    /\ output.ret.populated \subseteq PayloadFor(input.filePath)
    /\ output.ret.populated = {} <=>
         \/ PayloadFor(input.filePath) = {}
         \/ PayloadFor(input.filePath) = {"ast"} /\ input.fileContent \in {"c2", "false"}
         \/ PayloadFor(input.filePath) = {"config"} /\ input.fileContent \in {"c2", "false", ""}

\* a context built for a code file that the parser rejected
C28_Witness ==
  /\ input.fn = "prepareContext"
  /\ input.filePath = "/p/App.tsx"
  /\ input.fileContent = "c2"
  /\ output # Null
  /\ output.ret.populated = {}

---------------------------------------------------------------------------
(* Claims about runRulesOnProject, checked under SpecProject *)

\* the list the walker's buckets make for the files on disk, the directory the
\* run was called with and the globs the engine holds
ProjectList ==
  LET w == walkProjectFiles({p \in Paths : fs[p] # NoFile}, input.rootDir, excludedPaths)
  IN w.jsFiles \o w.jsonFiles \o w.xmlFiles \o w.plistFiles

\* C29: runRulesOnProject(rootDir) is runRulesOnFiles on the concatenation, in the
\* order jsFiles, jsonFiles, xmlFiles, plistFiles, of what the walker returns for
\* rootDir with the engine's excludedPaths: when the walk returns the run is in
\* the state in which runRulesOnFiles starts on that list (counters at zero, no
\* progress reported, the cache untouched, one queued task per file behind a
\* limiter of the engine's concurrency), every later step is a step of
\* runRulesOnFiles, and the ScanResult counts that list.
C29_ProjectRunIsFilesRunOnWalk ==
  /\ [][\A r \in RunIds :
          (phase[r] = "walking" /\ phase'[r] = "running") =>
            /\ filePaths'[r] = ProjectList
            /\ limitN'[r] = concurrency
            /\ task'[r] = [i \in DOMAIN ProjectList |-> QueuedTask]
            /\ completed'[r] = 0 /\ progress'[r] = <<>> /\ result'[r] = Null
            /\ skippedFiles' = 0 /\ cachedFiles' = 0
            /\ UNCHANGED <<scanCache, disk, mutated, excludedPaths, fs>>]_vars
  /\ [][\A r \in RunIds :
          phase[r] = "running" =>
            \/ Admit(r) \/ FinishRun(r)
            \/ \E i \in 1..MaxFiles : ReadDone(r, i) \/ ParseDone(r, i) \/ RuleDone(r, i)]_vars
  /\ [](\A r \in RunIds :
          /\ phase[r] \in {"running", "done"} => filePaths[r] = ProjectList
          /\ phase[r] = "done" =>
                /\ result[r].scannedFiles = Len(ProjectList)
                /\ progress[r] = [i \in 1..Len(ProjectList) |-> i])

\* a project with a source and a configuration file was scanned to the end,
\* source file first, with findings
C29_Witness ==
  /\ phase[1] = "done"
  /\ input.rootDir = "/p"
  /\ filePaths[1] = <<"/p/a.js", "/p/b.json">>
  /\ excludedPaths # {}
  /\ Len(result[1].findings) > 0

---------------------------------------------------------------------------
(* Claims about ScanCache.getFindings, checked under SpecCache *)

\* C30: getFindings(path) returns the findings stored for path, and returns null
\* whenever the cache is disabled, path has no entry, or the entry stored for
\* path carries another version than the one the cache was constructed with.
\* Stated for a cache whose files map is an object (a cache file holding
\* "files": null makes every lookup fail, whatever the entry).
C30_GetFindingsNullUnlessValid ==
  ~FilesIsNull(scanCache) =>
    /\ ~getFindingsThrows(scanCache)
    /\ \A p \in Paths :
         /\ ~scanCache.enabled => getFindingsIsNull(scanCache, p)
         /\ ~HasEntry(scanCache, p) => getFindingsIsNull(scanCache, p)
         /\ (HasEntry(scanCache, p) /\ scanCache.cache.files[p].version # scanCache.version)
              => getFindingsIsNull(scanCache, p)
         /\ ~getFindingsIsNull(scanCache, p) =>
              getFindings(scanCache, p) = scanCache.cache.files[p].findings

---------------------------------------------------------------------------
(* Claims about ScanCache.remove and ScanCache.clear, checked under SpecCache *)

\* C31: remove(path) deletes the entry of path and no other, clear() leaves no
\* entry, and each sets the dirty flag only if it changed the entry map: after a
\* remove of an absent path or a clear of an empty cache the flag is what it
\* was, so a save that had nothing to write before still has nothing to write.
\* Stated for a cache whose files map is not null.
C31_RemoveClearDirtyOnlyOnChange ==
  [][~FilesIsNull(scanCache) =>
       /\ \A p \in Paths :
            Remove(p) =>
              /\ scanCache'.cache.files = DropEntries(scanCache.cache.files, {p})
              /\ scanCache'.isDirty =
                   (scanCache.isDirty \/ scanCache'.cache.files # scanCache.cache.files)
              /\ HasEntry(scanCache, p) \/ (saveWrites(scanCache') = saveWrites(scanCache))
       /\ Clear =>
            /\ DOMAIN scanCache'.cache.files = {}
            /\ scanCache'.isDirty =
                 (scanCache.isDirty \/ scanCache'.cache.files # scanCache.cache.files)
            /\ getStats(scanCache) > 0 \/ (saveWrites(scanCache') = saveWrites(scanCache))]_vars

---------------------------------------------------------------------------
(* Runs whose awaited operations terminate *)

\* the event loop runs every continuation that is ready: the limiter starts a
\* queued task when a slot is free, and the reads, parses and rule invocations
\* of the tasks in S resolve
Terminating(S) ==
  /\ WF_vars(Admit(1))
  /\ WF_vars(FinishRun(1))
  /\ \A i \in S : /\ WF_vars(ReadDone(1, i))
                  /\ WF_vars(ParseDone(1, i))
                  /\ WF_vars(RuleDone(1, i))

SpecFaultyLive == SpecFaulty /\ Terminating(1..MaxFiles)

\* the order in which a task goes through its steps
Step(pc) ==
  CASE pc = "queued" -> 0 [] pc = "reading" -> 1 [] pc = "parsing" -> 2
    [] pc = "rules" -> 3 [] OTHER -> 4

\* C32: when every read, parse and rule invocation terminates, whatever the
\* bound N >= 1 and the length of the list, every task of a run is admitted,
\* runs once (it never goes back to an earlier step) and completes, and the run
\* returns its ScanResult, after exactly as many completions as the list has
\* files.
C32_EveryTaskRunsAndRunReturns ==
  /\ \A i \in 1..MaxFiles :
       (phase[1] = "running" /\ i \in DOMAIN task[1])
         ~> (phase[1] = "done" /\ i \in DOMAIN task[1] /\ task[1][i].pc = "done")
  /\ [][\A i \in DOMAIN task[1] :
          (phase[1] = "running" /\ phase'[1] \in {"running", "done"}) =>
            Step(task'[1][i].pc) >= Step(task[1][i].pc)]_vars
  /\ [](phase[1] = "done" =>
          /\ result[1] # Null
          /\ completed[1] = Len(filePaths[1])
          /\ \A i \in DOMAIN task[1] : task[1][i].pc = "done")
  /\ [][phase[1] = "running" /\ phase'[1] = "done" =>
          completed[1] = Len(filePaths[1])]_vars

---------------------------------------------------------------------------
(* Runs in which the first task of the list may never settle: its read, its *)
(* parse or one of its rules stays pending, every other operation resolves  *)

NextStuck ==
  \/ \E n \in {1, 2} : SetConcurrency(n)
  \/ NextScan

\* the cache enabled on a directory without cache file, one group of two rules
InitStuck ==
  /\ InitScan
  /\ disk = DiskMissing
  /\ scanCache # Null
  /\ fs = [p \in Paths |-> "c1"]
  /\ ruleGroups = << <<"R2", "R1">> >>

SpecStuck == InitStuck /\ [][NextStuck]_vars /\ Terminating(2..MaxFiles)

\* the tasks of run 1 other than the first
Others == DOMAIN task[1] \ {1}

\* C33: a task that never completes holds one slot and no more: when the bound
\* is at least 2 every other file of the list is still scanned and reported to
\* the progress callback, and as long as a task is unresolved the run returns
\* no ScanResult and the cache file is not written.
C33_StuckTaskHoldsOneSlot ==
  /\ (phase[1] = "running" /\ limitN[1] >= 2)
       ~> (\/ phase[1] # "running"
           \/ /\ \A i \in Others : task[1][i].pc = "done"
              /\ Len(progress[1]) >= Cardinality(Others))
  /\ [](Len(progress[1]) = Cardinality({i \in DOMAIN task[1] : task[1][i].pc = "done"}))
  /\ []((phase[1] = "running" /\ \E i \in DOMAIN task[1] : task[1][i].pc # "done") =>
          result[1] = Null /\ writes = 0)
  /\ [][(phase[1] = "running" /\ \E i \in DOMAIN task[1] : task[1][i].pc # "done") =>
          disk' = disk /\ phase'[1] = "running"]_vars

\* the first task is still reading while the other file of the list has been
\* scanned and reported, with an entry waiting to be saved
C33_Witness ==
  /\ phase[1] = "running"
  /\ limitN[1] = 2
  /\ Len(task[1]) = 2
  /\ task[1][1].pc = "reading"
  /\ task[1][2].pc = "done"
  /\ progress[1] = <<1>>
  /\ scanCache # Null
  /\ scanCache.isDirty
  /\ result[1] = Null

---------------------------------------------------------------------------
(* Two runs of one engine that overlap: the caller starts the second before *)
(* the first has returned.  Both use the engine's two counters.             *)

\* runRulesOnFiles called whatever the other run is doing
StartOverlapping(r, files) ==
  /\ phase[r] \notin {"walking", "running"}
  /\ scans < MaxScans
  /\ scans' = scans + 1
  /\ phase' = [phase EXCEPT ![r] = "running"]
  /\ filePaths' = [filePaths EXCEPT ![r] = files]
  /\ limitN' = [limitN EXCEPT ![r] = concurrency]
  /\ task' = [task EXCEPT ![r] = [i \in DOMAIN files |-> QueuedTask]]
  /\ completed' = [completed EXCEPT ![r] = 0]
  /\ progress' = [progress EXCEPT ![r] = <<>>]
  /\ result' = [result EXCEPT ![r] = Null]
  /\ uncached' = [uncached EXCEPT ![r] = <<>>]
  /\ skippedFiles' = 0
  /\ cachedFiles' = 0
  /\ writes' = 0
  /\ UNCHANGED <<scanCache, disk, mutated, prevScan>>
  /\ RunFrame

NextOverlap ==
  \/ \E files \in FileLists : StartRun(1, files)
  \/ \E files \in FileLists : StartOverlapping(2, files)
  \/ \E r \in RunIds :
       \/ Admit(r)
       \/ \E i \in 1..MaxFiles : ReadDone(r, i)
       \/ \E i \in 1..MaxFiles : ParseDone(r, i)
       \/ \E i \in 1..MaxFiles : RuleDone(r, i)
       \/ FinishRun(r)

\* one group of two rules, the cache enabled or not on a directory without
\* cache file
InitOverlap ==
  /\ InitScan
  /\ disk = DiskMissing
  /\ ruleGroups = << <<"R2", "R1">> >>

SpecOverlap == InitOverlap /\ [][NextOverlap]_vars

\* C34: when two runs of one engine overlap, the skippedFiles and cachedFiles
\* of each ScanResult count the files of that run that were skipped and served
\* from the cache, and nothing else: neither counter of a run is reset or
\* incremented by the other run.
C34_CountersArePerRun ==
  \A r \in RunIds :
    result[r] # Null =>
      /\ result[r].hasSkippedFiles <=> SkippedIn(r) # {}
      /\ result[r].hasSkippedFiles => result[r].skippedFiles = Cardinality(SkippedIn(r))
      /\ result[r].hasCachedFiles <=> CachedIn(r) # {}
      /\ result[r].hasCachedFiles => result[r].cachedFiles = Cardinality(CachedIn(r))

---------------------------------------------------------------------------
(* Claims about the result of a run under every bound and interleaving,     *)
(* checked under SpecStuck                                                  *)

\* the positions of the list of run r that a run with bound 1, which scans the
\* list in order, serves from a cache that held no entry when the run started:
\* the readable files listed before at an earlier position
HitsInOrder(r) ==
  {i \in DOMAIN filePaths[r] :
     /\ fs[filePaths[r][i]] # NoFile
     /\ \E j \in 1..(i - 1) : filePaths[r][j] = filePaths[r][i]}

\* C35: with the file contents, the prior cache contents and the rules fixed,
\* the ScanResult of runRulesOnFiles is the same under every bound and every
\* interleaving of the tasks, also when the list names a path twice.  Stated
\* for the first run of an engine whose cache was loaded empty: the findings,
\* skippedFiles and cachedFiles are those of the run with bound 1.
C35_ResultIndependentOfSchedule ==
  \A r \in RunIds :
    (phase[r] = "done" /\ scans = 1 /\ scanCache # Null /\ ~FilesIsNull(scanCache)) =>
      /\ result[r].findings = uncached[r]
      /\ result[r].hasSkippedFiles <=> (\E i \in DOMAIN filePaths[r] : fs[filePaths[r][i]] = NoFile)
      /\ result[r].hasCachedFiles <=> HitsInOrder(r) # {}
      /\ result[r].hasCachedFiles => result[r].cachedFiles = Cardinality(HitsInOrder(r))

---------------------------------------------------------------------------
(* Claims about what a scan writes to the cache, checked under SpecClear *)

\* C36: a task that is served from the cache leaves the cache as it is (the
\* entry with its hash, findings, timestamp and version, and the dirty flag),
\* and so does a task whose read fails; an entry is written only by a task
\* that read its file and missed the cache, and only for that file.
C36_OnlyAMissWritesAnEntry ==
  /\ [][\A i \in 1..MaxFiles :
          (scanCache # Null /\ ReadDone(1, i)) =>
            /\ fs[filePaths[1][i]] = NoFile => scanCache' = scanCache
            /\ task'[1][i].hit => scanCache' = scanCache]_vars
  /\ [][(/\ phase[1] = "running"
          /\ scanCache # Null /\ scanCache' # Null
          /\ scanCache'.cache.files # scanCache.cache.files) =>
            \E i \in DOMAIN task[1] :
              /\ task[1][i].pc \in {"parsing", "rules"}
              /\ task[1][i].content # NoFile
              /\ ~task'[1][i].hit /\ ~task'[1][i].skipped
              /\ task'[1][i].pc = "done"
              /\ \A q \in Paths \ {filePaths[1][i]} :
                   /\ HasEntry(scanCache', q) <=> HasEntry(scanCache, q)
                   /\ HasEntry(scanCache, q) =>
                        scanCache'.cache.files[q] = scanCache.cache.files[q]]_vars

\* a scan served one file from the cache and skipped the other, whose entry from
\* an earlier scan is still there; it had nothing to save
C36_Witness ==
  /\ phase[1] = "done"
  /\ scanCache # Null
  /\ ~scanCache.isDirty /\ writes = 0
  /\ \E i, j \in DOMAIN task[1] :
       /\ task[1][i].hit
       /\ task[1][j].skipped
       /\ fs[filePaths[1][j]] = NoFile
       /\ HasEntry(scanCache, filePaths[1][j])

---------------------------------------------------------------------------
(* Scans of an engine whose cache is cleared, which is restarted, and whose *)
(* project loses and regains a file                                         *)

NextClear ==
  \/ RegisterRuleGroup(<<"R2", "R1">>)
  \/ EnableCache("1.0.0")
  \/ ClearCache
  \/ NewEngine
  \/ \E c \in {"c1", NoFile} : WriteFile("/p/a.js", c)
  \/ NextScan

SpecClear == InitConfig /\ [][NextClear]_vars

---------------------------------------------------------------------------
(* Claims about RuleEngine.clearCache, checked under SpecClear *)

\* clearCache has returned and at most one scan has begun since: lastCall.ret
\* holds the number of scans that had begun when it resolved
Cleared == lastCall.op = "clearCache" /\ scans = lastCall.ret + 1

\* the tasks of run 1 whose path the list names at another position too: one of
\* them can be served from the entry another stored in the same run
ListedAgain ==
  {i \in DOMAIN task[1] : \E j \in DOMAIN task[1] \ {i} : filePaths[1][j] = filePaths[1][i]}

\* the settled tasks of run 1 that were not skipped executed every applicable rule
RulesExecuted(S) ==
  \A i \in S :
    (task[1][i].pc = "done" /\ ~task[1][i].skipped) =>
      /\ ~task[1][i].hit
      /\ task[1][i].applied = Len(getApplicableRules(ruleGroups, ignoredRules, filePaths[1][i]))

\* C38 as stated: after clearCache() has resolved the cache in memory and the
\* cache file hold zero entries, so the next scan, in this engine or in a new
\* one after enableCache on the same directory, serves no file from the cache
\* and executes the rules for every file.
C38_ClearEmptiesMemoryAndFile ==
  /\ [][ClearCache =>
          /\ getStats(scanCache') = 0
          /\ disk'.t = "text" /\ disk'.j = "data" /\ DOMAIN disk'.files = {}]_vars
  /\ []((Cleared /\ phase[1] = "running") =>
          /\ cachedFiles = 0
          /\ RulesExecuted(DOMAIN task[1]))

\* C38, amended: after clearCache() has resolved the cache in memory holds zero
\* entries, and the cache file holds zero entries if its write succeeded (a
\* failed write is swallowed and leaves the file as it was, or cut short).
\* When the write succeeded, the next scan, in this engine or in a new one
\* after enableCache, serves no file from an entry stored before the clear:
\* the rules are executed for every file that is read, except for a path the
\* list names more than once, which may be served from the entry that another
\* of its occurrences stored in the same scan.
C38_ClearEmptiesMemoryAndWrittenFile ==
  /\ [][ClearCache =>
          /\ getStats(scanCache') = 0
          /\ lastCall'.wrote
          /\ lastCall'.ok =>
               disk'.t = "text" /\ disk'.j = "data" /\ DOMAIN disk'.files = {}
          /\ ~lastCall'.ok => disk' \in {disk, TextInvalid}]_vars
  /\ []((Cleared /\ lastCall.ok /\ phase[1] = "running") =>
          /\ CachedIn(1) \subseteq ListedAgain
          /\ RulesExecuted(DOMAIN task[1] \ ListedAgain))

\* clearCache wrote the empty cache file, and the scan that followed an earlier
\* scan has read both files again and executed rules for each, serving none
\* from the cache
C38_Witness ==
  /\ Cleared /\ lastCall.ok
  /\ scans = 2
  /\ phase[1] = "running"
  /\ scanCache # Null
  /\ ruleGroups # <<>>
  /\ filePaths[1] = <<"/p/a.js", "/p/b.json">>
  /\ \A i \in DOMAIN task[1] :
       task[1][i].pc = "done" /\ ~task[1][i].hit /\ task[1][i].applied > 0

---------------------------------------------------------------------------
(* Claims about a failed write of the cache file, checked under SpecScan *)

\* C37: when the write of the cache file fails at the end of a run, no error
\* is raised (the run returns), the entries in memory are unchanged and the
\* dirty flag stays set, so that the next save attempts the write again; and
\* the ScanResult is what it is when the write succeeds.
C37_FailedWriteIsSwallowed ==
  /\ [][(/\ FinishRun(1)
          /\ scanCache # Null
          /\ writes' = writes + 1
          /\ disk' # JsonStringify(scanCache.cache)) =>
            /\ phase'[1] = "done"
            /\ scanCache'.cache = scanCache.cache
            /\ scanCache'.isDirty
            /\ saveWrites(scanCache')]_vars
  /\ [][FinishRun(1) =>
          result'[1] = ScanResult(flat(Results(1)), Len(filePaths[1]),
                                  skippedFiles, cachedFiles)]_vars

\* the second scan served every file from the cache and stored nothing, and
\* still wrote the cache file: the write of the first scan had failed
C37_Witness ==
  /\ scans = 2
  /\ phase[1] = "done"
  /\ Len(task[1]) > 0
  /\ \A i \in DOMAIN task[1] : task[1][i].hit
  /\ writes = 1
  /\ disk.t = "text" /\ disk.j = "data" /\ DOMAIN disk.files # {}
  /\ Len(result[1].findings) > 0

---------------------------------------------------------------------------
(* Claims about the dirty flag of the ScanCache, checked under SpecCache *)

\* C39: the dirty flag is set whenever the entry map in memory differs from the
\* map last loaded or successfully saved: no set, remove, clear or prune
\* changes the entry map without setting the flag, and the flag is cleared
\* only by a save that put the entry map of that moment into the cache file
\* (or by constructing a new cache), so that no mutation is lost by a later
\* save made while enabled.
C39_DirtyWheneverMapDiffers ==
  /\ [][(lastCall'.op \in Mutators
           /\ scanCache'.cache.files # scanCache.cache.files) =>
            scanCache'.isDirty]_vars
  /\ [][(scanCache.isDirty /\ ~scanCache'.isDirty) =>
            \/ lastCall'.op = "construct"
            \/ /\ lastCall'.op = "save" /\ lastCall'.ok
               /\ scanCache.enabled
               /\ scanCache'.cache.files = scanCache.cache.files
               /\ disk'.t = "text" /\ disk'.j = "data"
               /\ disk'.files = scanCache.cache.files]_vars

====
